---- MODULE Spec2Model ----
(***************************************************************************)
(* Nuclei N100 SDK: the system timer driver (core_feature_timer.h) and the *)
(* exception dispatch table (system_evalsoc.c).                            *)
(*                                                                         *)
(* Registers are modelled at the granularity of the driver's individual    *)
(* loads and stores: every __LW/__SW/__LD/__SD is one step of the hart     *)
(* that issues it, and the free-running counter ticks between them.        *)
(* The 64-bit registers are scaled to 2*HalfBits bits; all arithmetic is   *)
(* done modulo the scaled widths.                                          *)
(***************************************************************************)
EXTENDS Integers, Sequences, FiniteSets, TLC

(* ------------------------------ bounds -------------------------------- *)
\* Width of one register half in the model (32 in the hardware).
HalfBits == 2
\* Harts are 0..MaxHartId.
MaxHartId == 1
\* Number of Exception_Init / Exception_Register_EXC calls in one run.
MaxExcCalls == 3
\* Number of counter ticks while a call is in flight.
MaxTicks == 2

(* ------------------------- integer arithmetic -------------------------- *)
RECURSIVE Pow2(_)
Pow2(n) == IF n = 0 THEN 1 ELSE 2 * Pow2(n - 1)

\* 2^32 and 2^64 of the hardware, at the model's width.
HalfMod == Pow2(HalfBits)
FullMod == HalfMod * HalfMod
Half == 0 .. (HalfMod - 1)
Full == 0 .. (FullMod - 1)
Harts == 0 .. MaxHartId

\* -1U as a uint32_t
AllOnes32 == HalfMod - 1
\* (uint32_t)(value >> 32)
High32(value) == value \div HalfMod
\* (uint32_t)(value)
Low32(value) == value % HalfMod
\* (((uint64_t)high) << 32) | low
Join64(high, low) == (high * HalfMod) + low
\* uint64_t addition
Add64(a, b) == (a + b) % FullMod

\* __SW(addr, v) / __SW(addr + 4, v) on a 64-bit register holding reg
SW_low(reg, v) == Join64(High32(reg), v)
SW_high_at_low(reg, v) == Join64(High32(reg), v)
SW_high(reg, v) == Join64(v, Low32(reg))

(* --------------------------- register layout --------------------------- *)
\* MTIMECTL bit fields
SysTimer_MTIMECTL_TIMESTOP_Msk == 1
SysTimer_MTIMECTL_CMPCLREN_Msk == 2
\* x & mask for a one-bit mask
BitSet(x, mask) == (x \div mask) % 2 = 1
SysTimer_MTIMECTL_CLKSRC_Msk == 4
\* All defined bits of MTIMECTL: TIMESTOP | CMPCLREN | CLKSRC
SysTimer_MTIMECTL_Msk ==
    SysTimer_MTIMECTL_TIMESTOP_Msk + SysTimer_MTIMECTL_CMPCLREN_Msk
        + SysTimer_MTIMECTL_CLKSRC_Msk
\* MSIP bit fields: bit 0 is the only significant bit
SysTimer_MSIP_MSIP_Msk == 1
SysTimer_MSIP_Msk == SysTimer_MSIP_MSIP_Msk
\* The key SysTimer_SoftwareReset writes (the low bits of 0x80000A5F)
SysTimer_MSFRST_KEY == 2655

\* x & y, x | y and x & ~mask on unsigned integers
RECURSIVE BitAnd(_, _)
BitAnd(x, y) ==
    IF x = 0 \/ y = 0 THEN 0
    ELSE ((x % 2) * (y % 2)) + (2 * BitAnd(x \div 2, y \div 2))
BitOr(x, y) == (x + y) - BitAnd(x, y)
BitClear(x, mask) == x - BitAnd(x, mask)

\* uint32_t arguments and register contents of the control and MSIP
\* registers: every combination of the defined bits, with and without one
\* bit beyond them.
CtlVals == 0 .. ((2 * SysTimer_MTIMECTL_Msk) + 1)
MsipVals == 0 .. ((2 * SysTimer_MSIP_Msk) + 1)

\* Exception table size
MAX_SYSTEM_EXCEPTION_NUM == 12

VARIABLES
    xlen,                     \* __RISCV_XLEN of the build: 32 or 64
    MTIMER,                   \* SysTimer->MTIMER, the free-running counter
    MTIMERCMP,                \* SysTimer->MTIMERCMP, hart 0's compare register
    CLINT_MTIMECMP,           \* the per-hart indexed compare registers
    MTIMECTL,                 \* SysTimer->MTIMECTL
    eclic,                    \* ECLIC state of SysTimer_IRQn
    pc,                       \* per hart: the next load/store of the call
    op,                       \* per hart: the API function being executed
    loc,                      \* per hart: arguments and locals of the call
    stores,                   \* per hart: the stores the call has issued
    snap,                     \* per hart: the registers as the call began
    seen,                     \* per hart: counter values held during the reads
    nticks,                   \* counter ticks so far
    SystemExceptionHandlers,  \* the exception handler table
    exc_call,                 \* the last exception-table API call
    exc_log,                  \* Exception_Register_EXC calls since Exception_Init
    MSIP,                     \* SysTimer->MSIP, hart 0's software interrupt register
    CLINT_MSIP,               \* the per-hart indexed software interrupt registers
    MSFTRST,                  \* SysTimer->MSFTRST, the software reset request
    loads,                    \* per hart: the loads the call has issued
    pre,                      \* MTIMECTL and the MSIP registers as the call began
    prev,                     \* the call that returned before the current one
    last_swirq,               \* per target hart: the last Set/ClearHartSWIRQ call
    trap_pc,                  \* position of the trapped hart in the dispatcher
    trap,                     \* arguments and locals of core_exception_handler
    invoked,                  \* handler invocations of the current trap
    irq_vector,               \* the interrupt vector table, and the words after it
    irq_enabled,              \* the interrupt lines IRQC_EnableIRQ has enabled
    irq_call,                 \* the last IRQC_Register_IRQ call
    boot_pc,                  \* position of the boot hart in _premain_init
    boot_log,                 \* the functions _premain_init has called
    isr_ticks                 \* per hart, the ticks argument of its timer interrupt
                              \* handler, 0 where none is installed

hw == <<xlen, MTIMER, MTIMERCMP, CLINT_MTIMECMP, MTIMECTL, eclic>>
cpu == <<pc, op, loc, stores, snap, seen>>
exc == <<SystemExceptionHandlers, exc_call, exc_log>>
swi == <<MSIP, CLINT_MSIP, MSFTRST>>
hist == <<loads, pre, prev, last_swirq>>
trp == <<trap_pc, trap, invoked>>
sys == <<irq_vector, irq_enabled, irq_call, boot_pc, boot_log, isr_ticks>>
ext == <<swi, hist, trp, sys>>
vars == <<hw, cpu, nticks, exc, ext>>

(* ------------------------------ hardware -------------------------------- *)
\* SysTimer_CLINT_MTIMECMP_BASE(hartid): the slot of the indexed region that
\* base + hartid * stride addresses.
SysTimer_CLINT_MTIMECMP_BASE(hartid) == hartid

\* The compare register SysTimer_SetHartCompareValue / GetHartCompareValue
\* select: the fixed MTIMERCMP for hart 0, the indexed region otherwise.
LoadCmp(hartid) ==
    IF hartid = 0 THEN MTIMERCMP
    ELSE CLINT_MTIMECMP[SysTimer_CLINT_MTIMECMP_BASE(hartid)]

StoreCmp_fixed(hartid, v) ==
    /\ MTIMERCMP' = v
    /\ UNCHANGED CLINT_MTIMECMP
StoreCmp(hartid, v) ==
    IF hartid = 0
    THEN /\ MTIMERCMP' = v
         /\ UNCHANGED CLINT_MTIMECMP
    ELSE /\ CLINT_MTIMECMP' =
                [CLINT_MTIMECMP EXCEPT ![SysTimer_CLINT_MTIMECMP_BASE(hartid)] = v]
         /\ UNCHANGED MTIMERCMP

\* Name and index of that register, for the store log.
CmpName(hartid) == IF hartid = 0 THEN "MTIMERCMP" ELSE "CLINT_MTIMECMP"
CmpIndex(hartid) == IF hartid = 0 THEN 0 ELSE SysTimer_CLINT_MTIMECMP_BASE(hartid)

\* One logged store: register, index, byte offset, width in bytes, value.
St(reg, idx, off, width, val) ==
    [reg |-> reg, idx |-> idx, off |-> off, width |-> width, val |-> val]

\* The timer interrupt of a hart is pending while counter >= compare.
TimerPending(hartid) == MTIMER >= LoadCmp(hartid)

(* ------------------------------ call frames ----------------------------- *)
Loc0 ==
    [ticks |-> 0, hartid |-> 0, value |-> 0, high0 |-> 0, low |-> 0,
     high |-> 0, cur_ticks |-> 0, reload_ticks |-> 0, ret |-> 0]

ReloadOps == {"SysTick_Reload", "SysTick_HartReload"}
ConfigOps == {"SysTick_Config", "SysTick_HartConfig"}

\* First access of each inlined primitive, by build.
GLEntry == IF xlen = 32 THEN "GL_high0" ELSE "GL_ld"
SLEntry == IF xlen = 32 THEN "SL_zero" ELSE "SL_sd"
SCEntry == IF xlen = 32 THEN "SC_ones" ELSE "SC_sd"

AllIdle == \A g \in Harts : pc[g] = "idle"
InFlight(h) == pc[h] \notin {"idle", "done"}

Advance(h, l, lc) ==
    /\ pc' = [pc EXCEPT ![h] = l]
    /\ loc' = [loc EXCEPT ![h] = lc]

Log(h, entry) == stores' = [stores EXCEPT ![h] = Append(stores[h], entry)]

\* Hart h, not inside a call, enters function name, whatever the other
\* harts are doing.
Invoke(h, name, ticks, value, hartid, entry) ==
    /\ pc[h] = "idle"
    /\ op' = [op EXCEPT ![h] = name]
    /\ Advance(h, entry, [Loc0 EXCEPT !.ticks = ticks, !.value = value,
                                      !.hartid = hartid])
    /\ stores' = [stores EXCEPT ![h] = <<>>]
    /\ snap' = [snap EXCEPT ![h] = [MTIMER |-> MTIMER, cmp |-> LoadCmp(hartid)]]
    /\ UNCHANGED <<hw, seen, nticks, exc, ext>>

\* The same while every hart is idle: the one call of a run.
Begin(h, name, ticks, value, hartid, entry) ==
    /\ AllIdle
    /\ Invoke(h, name, ticks, value, hartid, entry)

(* ----------------------------- the counter ------------------------------ *)
\* One tick of the free-running counter: halted by TIMESTOP, cleared to zero
\* at counter >= compare when CMPCLREN is set.  Ticks before a call begins
\* are covered by the arbitrary initial counter value.
Tick ==
    /\ ~BitSet(MTIMECTL, SysTimer_MTIMECTL_TIMESTOP_Msk)
    /\ \E h \in Harts : InFlight(h)
    /\ nticks < MaxTicks
    /\ nticks' = nticks + 1
    /\ MTIMER' = IF /\ BitSet(MTIMECTL, SysTimer_MTIMECTL_CMPCLREN_Msk)
                    /\ MTIMER >= MTIMERCMP
                 THEN 0
                 ELSE Add64(MTIMER, 1)
    /\ seen' = [h \in Harts |->
                   IF pc[h] \in {"GL_low", "GL_high", "GL_relow"}
                   THEN seen[h] \cup {MTIMER'}
                   ELSE seen[h]]
    /\ UNCHANGED <<xlen, MTIMERCMP, CLINT_MTIMECMP, MTIMECTL, eclic>>
    /\ UNCHANGED <<pc, op, loc, stores, snap, exc, ext>>

(* --------------------------- SysTick_Reload ----------------------------- *)
\* if (__USUALLY(reload_ticks > cur_ticks))
ReloadNoOverflow_inverted(reload_ticks, cur_ticks) == reload_ticks < cur_ticks
ReloadNoOverflow_unchecked(reload_ticks, cur_ticks) == reload_ticks >= 0
ReloadNoOverflow(reload_ticks, cur_ticks) == reload_ticks > cur_ticks

(* ------------------------- SysTimer_GetLoadValue ------------------------ *)
\* if (high0 != high)
CarrySeen_never(high0, high) == high0 # high0
CarrySeen(high0, high) == high0 # high

\* What the caller does with the value SysTimer_GetLoadValue returns.
AfterGetLoadValue(h, lc, full) ==
    CASE op[h] \in ReloadOps ->
           LET reload_ticks == Add64(lc.ticks, full)
               lr == [lc EXCEPT !.cur_ticks = full, !.reload_ticks = reload_ticks]
           IN  IF ReloadNoOverflow(reload_ticks, full)
               THEN [pc |-> SCEntry, loc |-> [lr EXCEPT !.value = reload_ticks]]
               ELSE [pc |-> SLEntry, loc |-> [lr EXCEPT !.value = 0]]
      [] op[h] \in ConfigOps ->
           [pc |-> SCEntry,
            loc |-> [lc EXCEPT !.cur_ticks = full, !.value = Add64(lc.ticks, full)]]
      [] OTHER -> [pc |-> "done", loc |-> [lc EXCEPT !.ret = full]]

GL_frame == UNCHANGED <<hw, op, stores, snap, nticks, exc, ext>>

\* high0 = __LW(addr + 4);
GL_high0(h) ==
    /\ pc[h] = "GL_high0"
    /\ Advance(h, "GL_low", [loc[h] EXCEPT !.high0 = High32(MTIMER)])
    /\ seen' = [seen EXCEPT ![h] = {MTIMER}]
    /\ GL_frame

\* low = __LW(addr);
GL_low(h) ==
    /\ pc[h] = "GL_low"
    /\ Advance(h, "GL_high", [loc[h] EXCEPT !.low = Low32(MTIMER)])
    /\ UNCHANGED seen
    /\ GL_frame

\* high = __LW(addr + 4); if (high0 != high) ... else return
GL_high(h) ==
    /\ pc[h] = "GL_high"
    /\ LET lc == [loc[h] EXCEPT !.high = High32(MTIMER)]
           nxt == AfterGetLoadValue(h, lc, Join64(lc.high, lc.low))
       IN  IF CarrySeen(lc.high0, lc.high)
           THEN Advance(h, "GL_relow", lc)
           ELSE Advance(h, nxt.pc, nxt.loc)
    /\ UNCHANGED seen
    /\ GL_frame

\* low = __LW(addr); full = (((uint64_t)high) << 32) | low; return full;
GL_relow(h) ==
    /\ pc[h] = "GL_relow"
    /\ LET lc == [loc[h] EXCEPT !.low = Low32(MTIMER)]
           nxt == AfterGetLoadValue(h, lc, Join64(lc.high, lc.low))
       IN  Advance(h, nxt.pc, nxt.loc)
    /\ UNCHANGED seen
    /\ GL_frame

\* return SysTimer->MTIMER;   (__RISCV_XLEN == 64)
GL_ld(h) ==
    /\ pc[h] = "GL_ld"
    /\ LET nxt == AfterGetLoadValue(h, loc[h], MTIMER)
       IN  Advance(h, nxt.pc, nxt.loc)
    /\ seen' = [seen EXCEPT ![h] = {MTIMER}]
    /\ GL_frame

SysTimer_GetLoadValue(h) ==
    \/ GL_high0(h)
    \/ GL_low(h)
    \/ GL_high(h)
    \/ GL_relow(h)
    \/ GL_ld(h)

Call_GetLoadValue(h) == Begin(h, "SysTimer_GetLoadValue", 0, 0, h, GLEntry)

(* ------------------------- SysTimer_SetLoadValue ------------------------ *)
\* __SW(addr, 0);      // prevent carry
SetLoadValue_first_skipped(reg) == reg
SetLoadValue_first_ones(reg) == SW_low(reg, AllOnes32)
SetLoadValue_first(reg) == SW_low(reg, 0)

\* What the caller does once SysTimer_SetLoadValue has returned.
AfterSetLoadValue(h, lc) ==
    IF op[h] \in ReloadOps
    THEN [pc |-> SCEntry, loc |-> [lc EXCEPT !.value = lc.ticks]]
    ELSE [pc |-> "done", loc |-> lc]

SL_frame ==
    UNCHANGED <<xlen, MTIMERCMP, CLINT_MTIMECMP, MTIMECTL, eclic, op, snap,
                seen, nticks, exc, ext>>

\* __SW(addr, 0);
SL_zero(h) ==
    /\ pc[h] = "SL_zero"
    /\ MTIMER' = SetLoadValue_first(MTIMER)
    /\ Log(h, St("MTIMER", 0, 0, 4, Low32(MTIMER')))
    /\ Advance(h, "SL_high", loc[h])
    /\ SL_frame

\* __SW(addr + 4, (uint32_t)(value >> 32));
SL_high(h) ==
    /\ pc[h] = "SL_high"
    /\ MTIMER' = SW_high(MTIMER, High32(loc[h].value))
    /\ Log(h, St("MTIMER", 0, 4, 4, High32(loc[h].value)))
    /\ Advance(h, "SL_low", loc[h])
    /\ SL_frame

\* __SW(addr, (uint32_t)(value));
SL_low(h) ==
    /\ pc[h] = "SL_low"
    /\ MTIMER' = SW_low(MTIMER, Low32(loc[h].value))
    /\ Log(h, St("MTIMER", 0, 0, 4, Low32(loc[h].value)))
    /\ LET nxt == AfterSetLoadValue(h, loc[h])
       IN  Advance(h, nxt.pc, nxt.loc)
    /\ SL_frame

\* SysTimer->MTIMER = value;   (__RISCV_XLEN == 64)
SL_sd(h) ==
    /\ pc[h] = "SL_sd"
    /\ MTIMER' = loc[h].value
    /\ Log(h, St("MTIMER", 0, 0, 8, loc[h].value))
    /\ LET nxt == AfterSetLoadValue(h, loc[h])
       IN  Advance(h, nxt.pc, nxt.loc)
    /\ SL_frame

SysTimer_SetLoadValue(h) ==
    \/ SL_zero(h)
    \/ SL_high(h)
    \/ SL_low(h)
    \/ SL_sd(h)

Call_SetLoadValue(h, value) ==
    Begin(h, "SysTimer_SetLoadValue", 0, value, h, SLEntry)

(* --------------------- SysTimer_SetHartCompareValue --------------------- *)
\* __SW(addr, -1U);      // prevent load > timecmp
SetCompare_first_zero(reg) == SW_low(reg, 0)
SetCompare_first(reg) == SW_low(reg, AllOnes32)

\* What the caller does once SysTimer_SetHartCompareValue has returned.
AfterSetHartCompareValue(h, lc) ==
    IF op[h] \in ConfigOps
    THEN [pc |-> "ECLIC", loc |-> lc]
    ELSE [pc |-> "done", loc |-> lc]

SC_frame == UNCHANGED <<xlen, MTIMER, MTIMECTL, eclic, op, snap, seen, nticks, exc, ext>>

\* __SW(addr, -1U);
SC_ones(h) ==
    /\ pc[h] = "SC_ones"
    /\ LET hartid == loc[h].hartid
           new == SetCompare_first(LoadCmp(hartid))
       IN  /\ StoreCmp(hartid, new)
           /\ Log(h, St(CmpName(hartid), CmpIndex(hartid), 0, 4, Low32(new)))
    /\ Advance(h, "SC_high", loc[h])
    /\ SC_frame

\* __SW(addr + 4, (uint32_t)(value >> 32));
SC_high(h) ==
    /\ pc[h] = "SC_high"
    /\ LET hartid == loc[h].hartid
       IN  /\ StoreCmp(hartid, SW_high(LoadCmp(hartid), High32(loc[h].value)))
           /\ Log(h, St(CmpName(hartid), CmpIndex(hartid), 4, 4,
                        High32(loc[h].value)))
    /\ Advance(h, "SC_low", loc[h])
    /\ SC_frame

\* __SW(addr, (uint32_t)(value));
SC_low(h) ==
    /\ pc[h] = "SC_low"
    /\ LET hartid == loc[h].hartid
       IN  /\ StoreCmp(hartid, SW_low(LoadCmp(hartid), Low32(loc[h].value)))
           /\ Log(h, St(CmpName(hartid), CmpIndex(hartid), 0, 4,
                        Low32(loc[h].value)))
    /\ LET nxt == AfterSetHartCompareValue(h, loc[h])
       IN  Advance(h, nxt.pc, nxt.loc)
    /\ SC_frame

\* SysTimer->MTIMERCMP = value; / __SD(addr, value);   (__RISCV_XLEN == 64)
SC_sd(h) ==
    /\ pc[h] = "SC_sd"
    /\ LET hartid == loc[h].hartid
       IN  /\ StoreCmp(hartid, loc[h].value)
           /\ Log(h, St(CmpName(hartid), CmpIndex(hartid), 0, 8, loc[h].value))
    /\ LET nxt == AfterSetHartCompareValue(h, loc[h])
       IN  Advance(h, nxt.pc, nxt.loc)
    /\ SC_frame

SysTimer_SetHartCompareValue(h) ==
    \/ SC_ones(h)
    \/ SC_high(h)
    \/ SC_low(h)
    \/ SC_sd(h)

Call_SetHartCompareValue(h, value, hartid) ==
    Begin(h, "SysTimer_SetHartCompareValue", 0, value, hartid, SCEntry)

(* ------------------- SysTick_Reload / SysTick_HartReload ---------------- *)
\* unsigned long hartid = SysTimer_GetHartID();
SysTimer_GetHartID(h) == h

Call_Reload(h, ticks) ==
    Begin(h, "SysTick_Reload", ticks, 0, SysTimer_GetHartID(h), GLEntry)

Call_HartReload(h, ticks, hartid) ==
    Begin(h, "SysTick_HartReload", ticks, 0, hartid, GLEntry)

(* ------------------- SysTick_Config / SysTick_HartConfig ---------------- *)
Call_Config(h, ticks) ==
    Begin(h, "SysTick_Config", ticks, 0, SysTimer_GetHartID(h), GLEntry)

Call_HartConfig(h, ticks, hartid) ==
    Begin(h, "SysTick_HartConfig", ticks, 0, hartid, GLEntry)

\* ECLIC_SetShvIRQ(SysTimer_IRQn, ECLIC_NON_VECTOR_INTERRUPT);
\* ECLIC_SetLevelIRQ(SysTimer_IRQn, 0); ECLIC_EnableIRQ(SysTimer_IRQn);
\* return (0UL);
Config_ECLIC(h) ==
    /\ pc[h] = "ECLIC"
    /\ eclic' = [shv |-> "NON_VECTOR", level |-> 0, enabled |-> TRUE]
    /\ Advance(h, "done", [loc[h] EXCEPT !.ret = 0])
    /\ UNCHANGED <<xlen, MTIMER, MTIMERCMP, CLINT_MTIMECMP, MTIMECTL>>
    /\ UNCHANGED <<op, stores, snap, seen, nticks, exc, ext>>

(* ------------------------ exception handler table ----------------------- *)
\* (unsigned long)system_default_exception_handler
system_default_exception_handler == 1
\* A handler a device vendor registers.
user_exception_handler == system_default_exception_handler + 1
\* Handler arguments of Exception_Register_EXC: NULL, the default, a user's.
HandlerArgs == {0, system_default_exception_handler, user_exception_handler}
\* EXCn arguments of Exception_Register_EXC: both ends of the table and
\* the first two codes beyond it.
RegisterCodes ==
    {0, MAX_SYSTEM_EXCEPTION_NUM - 1, MAX_SYSTEM_EXCEPTION_NUM,
     MAX_SYSTEM_EXCEPTION_NUM + 1}
\* EXCn arguments of Exception_Get_EXC: those, and a code nobody registers.
GetCodes == RegisterCodes \cup {MAX_SYSTEM_EXCEPTION_NUM \div 2}

\* for (int i = 0; i < MAX_SYSTEM_EXCEPTION_NUM; i++)
\*     SystemExceptionHandlers[i] = (unsigned long)system_default_exception_handler;
RECURSIVE Exception_Init_loop(_, _)
Exception_Init_loop(tbl, i) ==
    IF i < MAX_SYSTEM_EXCEPTION_NUM
    THEN Exception_Init_loop(
             [tbl EXCEPT ![i] = system_default_exception_handler], i + 1)
    ELSE tbl

\* if (EXCn < MAX_SYSTEM_EXCEPTION_NUM) SystemExceptionHandlers[EXCn] = exc_handler;
Exception_Register_EXC_first(tbl, EXCn, exc_handler) ==
    IF EXCn < MAX_SYSTEM_EXCEPTION_NUM
       /\ tbl[EXCn] = system_default_exception_handler
    THEN [tbl EXCEPT ![EXCn] = exc_handler]
    ELSE tbl
Exception_Register_EXC_masked(tbl, EXCn, exc_handler) ==
    [tbl EXCEPT ![EXCn % MAX_SYSTEM_EXCEPTION_NUM] = exc_handler]
Exception_Register_EXC(tbl, EXCn, exc_handler) ==
    IF EXCn < MAX_SYSTEM_EXCEPTION_NUM
    THEN [tbl EXCEPT ![EXCn] = exc_handler]
    ELSE tbl

\* The values Exception_Get_EXC can return.  For EXCn out of range the
\* function ends without a return statement: the caller reads whatever the
\* return register holds, which is the argument itself or any other value.
Exception_Get_EXC(tbl, EXCn) ==
    IF EXCn < MAX_SYSTEM_EXCEPTION_NUM
    THEN {tbl[EXCn]}
    ELSE {EXCn, 0, system_default_exception_handler}

ExcCall(fn, EXCn, handler, ret) ==
    [fn |-> fn, EXCn |-> EXCn, handler |-> handler, ret |-> ret]

Call_Exception_Init ==
    /\ Len(exc_log) < MaxExcCalls
    /\ SystemExceptionHandlers' = Exception_Init_loop(SystemExceptionHandlers, 0)
    /\ exc_call' = ExcCall("Exception_Init", 0, 0, 0)
    /\ exc_log' = Append(exc_log, exc_call')
    /\ UNCHANGED <<hw, cpu, nticks, ext>>

Call_Exception_Register_EXC(EXCn, exc_handler) ==
    /\ Len(exc_log) < MaxExcCalls
    /\ SystemExceptionHandlers' =
           Exception_Register_EXC(SystemExceptionHandlers, EXCn, exc_handler)
    /\ exc_call' = ExcCall("Exception_Register_EXC", EXCn, exc_handler, 0)
    /\ exc_log' = Append(exc_log, exc_call')
    /\ UNCHANGED <<hw, cpu, nticks, ext>>

Call_Exception_Get_EXC(EXCn) ==
    /\ \E ret \in Exception_Get_EXC(SystemExceptionHandlers, EXCn) :
           exc_call' = ExcCall("Exception_Get_EXC", EXCn, 0, ret)
    /\ UNCHANGED <<SystemExceptionHandlers, exc_log>>
    /\ UNCHANGED <<hw, cpu, nticks, ext>>

(* --------------------------- calls in sequence -------------------------- *)
\* No earlier call.
NoCall == [fn |-> "none", hartid |-> 0, value |-> 0, ret |-> 0]

NoneInFlight == \A g \in Harts : ~InFlight(g)

\* The call that has returned and not yet been followed by another.
Returned ==
    IF \E g \in Harts : pc[g] = "done"
    THEN LET g == CHOOSE g \in Harts : pc[g] = "done"
         IN  [fn |-> op[g], hartid |-> loc[g].hartid, value |-> loc[g].value,
              ret |-> loc[g].ret]
    ELSE NoCall

\* Hart h enters function name once the call before it has returned.
Enter(h, name, value, hartid, entry) ==
    /\ NoneInFlight
    /\ pc' = [g \in Harts |-> IF g = h THEN entry ELSE "idle"]
    /\ op' = [g \in Harts |-> IF g = h THEN name ELSE "none"]
    /\ loc' = [g \in Harts |->
                  IF g = h THEN [Loc0 EXCEPT !.value = value, !.hartid = hartid]
                  ELSE Loc0]
    /\ stores' = [g \in Harts |-> <<>>]
    /\ loads' = [g \in Harts |-> <<>>]
    /\ pre' = [MTIMECTL |-> MTIMECTL, MSIP |-> MSIP, CLINT_MSIP |-> CLINT_MSIP]
    /\ UNCHANGED <<hw, swi, snap, seen, nticks, exc, trp, sys>>

\* History kept beside the calls: the call that returned before the one
\* being entered, or the last SysTimer_SetHartSWIRQ / SysTimer_ClearHartSWIRQ
\* call of each target hart, or neither.
TrackPrev ==
    /\ prev' = Returned
    /\ UNCHANGED last_swirq
TrackSWIRQ(fn, hartid) ==
    /\ last_swirq' = [last_swirq EXCEPT ![hartid] = fn]
    /\ UNCHANGED prev
NoTrack == UNCHANGED <<prev, last_swirq>>

\* One logged load: register, index, byte offset, width in bytes.
Ld(reg, idx, off, width) == [reg |-> reg, idx |-> idx, off |-> off, width |-> width]

LogLoad(h, entry) == loads' = [loads EXCEPT ![h] = Append(loads[h], entry)]

(* ------------------------------- MTIMECTL ------------------------------- *)
\* SysTimer->MTIMECTL = (mctl & SysTimer_MTIMECTL_Msk);
SetControlValue_stored_timestop_only(mctl) ==
    BitAnd(mctl, SysTimer_MTIMECTL_TIMESTOP_Msk)
SetControlValue_stored_unmasked(mctl) == mctl
SetControlValue_stored(mctl) == BitAnd(mctl, SysTimer_MTIMECTL_Msk)

\* SysTimer->MTIMECTL &= ~(SysTimer_MTIMECTL_TIMESTOP_Msk);
Start_stored_assigned(old) ==
    BitClear(SysTimer_MTIMECTL_Msk, SysTimer_MTIMECTL_TIMESTOP_Msk)
Start_stored(old) == BitClear(old, SysTimer_MTIMECTL_TIMESTOP_Msk)

\* SysTimer->MTIMECTL |= SysTimer_MTIMECTL_TIMESTOP_Msk;
Stop_stored(old) == BitOr(old, SysTimer_MTIMECTL_TIMESTOP_Msk)

CTL_frame ==
    UNCHANGED <<xlen, MTIMER, MTIMERCMP, CLINT_MTIMECMP, eclic, op, snap, seen,
                nticks, exc, swi, pre, prev, last_swirq, trp, sys>>

Call_SetControlValue(h, mctl) ==
    Enter(h, "SysTimer_SetControlValue", mctl, 0, "CV_store")

\* SysTimer->MTIMECTL = (mctl & SysTimer_MTIMECTL_Msk);
CV_store(h) ==
    /\ pc[h] = "CV_store"
    /\ MTIMECTL' = SetControlValue_stored(loc[h].value)
    /\ Log(h, St("MTIMECTL", 0, 0, 4, MTIMECTL'))
    /\ Advance(h, "done", loc[h])
    /\ UNCHANGED loads
    /\ CTL_frame

Call_GetControlValue(h) ==
    Enter(h, "SysTimer_GetControlValue", 0, 0, "CV_load")

\* return (SysTimer->MTIMECTL & SysTimer_MTIMECTL_Msk);
CV_load(h) ==
    /\ pc[h] = "CV_load"
    /\ LogLoad(h, Ld("MTIMECTL", 0, 0, 4))
    /\ Advance(h, "done",
               [loc[h] EXCEPT !.ret = BitAnd(MTIMECTL, SysTimer_MTIMECTL_Msk)])
    /\ UNCHANGED <<MTIMECTL, stores>>
    /\ CTL_frame

Call_Start(h) ==
    Enter(h, "SysTimer_Start", 0, 0, "RMW_load")

Call_Stop(h) ==
    Enter(h, "SysTimer_Stop", 0, 0, "RMW_load")

\* The load of SysTimer->MTIMECTL &= ... / |= ...
RMW_load(h) ==
    /\ pc[h] = "RMW_load"
    /\ LogLoad(h, Ld("MTIMECTL", 0, 0, 4))
    /\ Advance(h, "RMW_store", [loc[h] EXCEPT !.low = MTIMECTL])
    /\ UNCHANGED <<MTIMECTL, stores>>
    /\ CTL_frame

\* The store of SysTimer->MTIMECTL &= ... / |= ...
RMW_store(h) ==
    /\ pc[h] = "RMW_store"
    /\ MTIMECTL' = IF op[h] = "SysTimer_Start"
                   THEN Start_stored(loc[h].low)
                   ELSE Stop_stored(loc[h].low)
    /\ Log(h, St("MTIMECTL", 0, 0, 4, MTIMECTL'))
    /\ Advance(h, "done", loc[h])
    /\ UNCHANGED loads
    /\ CTL_frame

(* ------------------------- SysTimer_SoftwareReset ------------------------ *)
\* while (1);
SoftwareReset_while_exits(spin, exit) == exit
SoftwareReset_while(spin, exit) == spin

Call_SoftwareReset(h) ==
    Enter(h, "SysTimer_SoftwareReset", 0, 0, "SR_store")

\* SysTimer->MSFTRST = SysTimer_MSFRST_KEY;
SR_store(h) ==
    /\ pc[h] = "SR_store"
    /\ MSFTRST' = SysTimer_MSFRST_KEY
    /\ Log(h, St("MSFTRST", 0, 0, 4, MSFTRST'))
    /\ Advance(h, "SR_while", loc[h])
    /\ UNCHANGED <<hw, MSIP, CLINT_MSIP, op, snap, seen, nticks, exc, hist, trp,
                   sys>>

\* while (1);
SR_while(h) ==
    /\ pc[h] = "SR_while"
    /\ Advance(h, SoftwareReset_while("SR_while", "done"), loc[h])
    /\ UNCHANGED <<hw, swi, op, stores, snap, seen, nticks, exc, hist, trp, sys>>

(* ------------------------ self-targeting wrappers ------------------------ *)
\* unsigned long hartid = SysTimer_GetHartID();
\* SysTimer_SetHartCompareValue(value, hartid);        and likewise the others:
\* the hart-qualified function each wrapper calls with its own hart id.
HartVariant(fn) ==
    CASE fn = "SysTimer_SetCompareValue" -> "SysTimer_SetHartCompareValue"
      [] fn = "SysTimer_GetCompareValue" -> "SysTimer_GetHartCompareValue"
      [] fn = "SysTimer_SetSWIRQ" -> "SysTimer_SetHartSWIRQ"
      [] fn = "SysTimer_ClearSWIRQ" -> "SysTimer_ClearHartSWIRQ"
      [] fn = "SysTimer_GetMsipValue" -> "SysTimer_GetHartMsipValue"
      [] fn = "SysTimer_SetMsipValue" -> "SysTimer_SetHartMsipValue"
      [] fn = "SysTick_Reload" -> "SysTick_HartReload"
      [] OTHER -> fn

(* --------------------- SysTimer_GetHartCompareValue ---------------------- *)
\* if (hartid == 0)
IsHart0_never(hartid) == hartid < 0
IsHart0(hartid) == hartid = 0

\* First access of SysTimer_GetHartCompareValue, by branch and build.
GCEntry(hartid) ==
    IF IsHart0(hartid) THEN "GC_fixed"
    ELSE IF xlen = 32 THEN "GC_high" ELSE "GC_ld"

Call_GetHartCompareValue(h, hartid) ==
    Enter(h, "SysTimer_GetHartCompareValue", 0, hartid, GCEntry(hartid))

GC_frame == UNCHANGED <<hw, swi, op, stores, snap, seen, nticks, exc, pre, prev,
                        last_swirq, trp, sys>>

\* return SysTimer->MTIMERCMP;
\* One 64-bit load where registers are 64 bits wide.  Where they are 32 bits
\* wide the compiler splits the load of the uint64_t into two 32-bit loads,
\* in an order of its choosing: this is the first of them.
GC_fixed(h) ==
    /\ pc[h] = "GC_fixed"
    /\ IF xlen = 64
       THEN /\ LogLoad(h, Ld("MTIMERCMP", 0, 0, 8))
            /\ Advance(h, "done", [loc[h] EXCEPT !.ret = MTIMERCMP])
       ELSE \/ /\ LogLoad(h, Ld("MTIMERCMP", 0, 4, 4))
               /\ Advance(h, "GC_fixed_low",
                          [loc[h] EXCEPT !.high = High32(MTIMERCMP)])
            \/ /\ LogLoad(h, Ld("MTIMERCMP", 0, 0, 4))
               /\ Advance(h, "GC_fixed_high",
                          [loc[h] EXCEPT !.low = Low32(MTIMERCMP)])
    /\ GC_frame

\* The second 32-bit load of return SysTimer->MTIMERCMP;
GC_fixed_rest(h) ==
    /\ pc[h] \in {"GC_fixed_low", "GC_fixed_high"}
    /\ LET lc == IF pc[h] = "GC_fixed_low"
                 THEN [loc[h] EXCEPT !.low = Low32(MTIMERCMP)]
                 ELSE [loc[h] EXCEPT !.high = High32(MTIMERCMP)]
       IN  /\ LogLoad(h, Ld("MTIMERCMP", 0,
                             IF pc[h] = "GC_fixed_low" THEN 0 ELSE 4, 4))
           /\ Advance(h, "done", [lc EXCEPT !.ret = Join64(lc.high, lc.low)])
    /\ GC_frame

\* high = __LW(addr + 4);
GC_high(h) ==
    /\ pc[h] = "GC_high"
    /\ LET idx == SysTimer_CLINT_MTIMECMP_BASE(loc[h].hartid)
       IN  /\ LogLoad(h, Ld("CLINT_MTIMECMP", idx, 4, 4))
           /\ Advance(h, "GC_low",
                      [loc[h] EXCEPT !.high = High32(CLINT_MTIMECMP[idx])])
    /\ GC_frame

\* low = __LW(addr); full = (((uint64_t)high) << 32) | low; return full;
GC_low(h) ==
    /\ pc[h] = "GC_low"
    /\ LET idx == SysTimer_CLINT_MTIMECMP_BASE(loc[h].hartid)
           low == Low32(CLINT_MTIMECMP[idx])
       IN  /\ LogLoad(h, Ld("CLINT_MTIMECMP", idx, 0, 4))
           /\ Advance(h, "done",
                      [loc[h] EXCEPT !.low = low,
                                     !.ret = Join64(loc[h].high, low)])
    /\ GC_frame

\* full = __LD(addr); return full;
GC_ld(h) ==
    /\ pc[h] = "GC_ld"
    /\ LET idx == SysTimer_CLINT_MTIMECMP_BASE(loc[h].hartid)
       IN  /\ LogLoad(h, Ld("CLINT_MTIMECMP", idx, 0, 8))
           /\ Advance(h, "done", [loc[h] EXCEPT !.ret = CLINT_MTIMECMP[idx]])
    /\ GC_frame

SysTimer_GetHartCompareValue(h) ==
    \/ GC_fixed(h)
    \/ GC_fixed_rest(h)
    \/ GC_high(h)
    \/ GC_low(h)
    \/ GC_ld(h)

(* ---------------------- calls on several harts at once ------------------- *)
\* The driver takes no lock: a hart enters a compare accessor whatever the
\* other harts are executing.
Par_SetHartCompareValue(h, value, hartid) ==
    Invoke(h, "SysTimer_SetHartCompareValue", 0, value, hartid, SCEntry)

Par_GetHartCompareValue(h, hartid) ==
    Invoke(h, "SysTimer_GetHartCompareValue", 0, 0, hartid, GCEntry(hartid))

(* ------------------------- software interrupts -------------------------- *)
\* SysTimer_CLINT_MSIP_BASE(hartid): the slot of the indexed region that
\* base + hartid * stride addresses.
SysTimer_CLINT_MSIP_BASE(hartid) == hartid

\* The register the MSIP accessors select: SysTimer->MSIP for hart 0, the
\* indexed region otherwise.
MsipTarget(hartid) ==
    IF IsHart0(hartid)
    THEN [reg |-> "MSIP", idx |-> 0]
    ELSE [reg |-> "CLINT_MSIP", idx |-> SysTimer_CLINT_MSIP_BASE(hartid)]

\* uint8_t *addr = (uint8_t *)(SysTimer_CLINT_MSIP_BASE(hartid));
\* in SysTimer_SendIPI and SysTimer_ClearIPI
IpiTarget_hart0_slot(hartid) ==
    [reg |-> "CLINT_MSIP", idx |-> SysTimer_CLINT_MSIP_BASE(0)]
IpiTarget_special_cased(hartid) == MsipTarget(hartid)
IpiTarget(hartid) ==
    [reg |-> "CLINT_MSIP", idx |-> SysTimer_CLINT_MSIP_BASE(hartid)]

IpiOps == {"SysTimer_SendIPI", "SysTimer_ClearIPI"}

\* The register the call of hart h addresses.
Target(h) ==
    IF op[h] \in IpiOps THEN IpiTarget(loc[h].hartid)
    ELSE MsipTarget(loc[h].hartid)

LoadMsip(t) == IF t.reg = "MSIP" THEN MSIP ELSE CLINT_MSIP[t.idx]

StoreMsip(t, v) ==
    IF t.reg = "MSIP"
    THEN /\ MSIP' = v
         /\ UNCHANGED CLINT_MSIP
    ELSE /\ CLINT_MSIP' = [CLINT_MSIP EXCEPT ![t.idx] = v]
         /\ UNCHANGED MSIP

\* SysTimer->MSIP |= SysTimer_MSIP_MSIP_Msk;
SetHartSWIRQ_fixed(old) == BitOr(old, SysTimer_MSIP_MSIP_Msk)
\* SysTimer->MSIP &= ~SysTimer_MSIP_MSIP_Msk;
ClearHartSWIRQ_fixed_unnegated(old) == BitAnd(old, SysTimer_MSIP_MSIP_Msk)
ClearHartSWIRQ_fixed(old) == BitClear(old, SysTimer_MSIP_MSIP_Msk)

\* The value each function stores, old being what its load returned.
MsipStored(h, old) ==
    LET fixed == IsHart0(loc[h].hartid)
        fn == HartVariant(op[h])
    IN  CASE fn = "SysTimer_SetHartSWIRQ" ->
               IF fixed THEN SetHartSWIRQ_fixed(old) ELSE SysTimer_MSIP_MSIP_Msk
          [] fn = "SysTimer_ClearHartSWIRQ" ->
               IF fixed THEN ClearHartSWIRQ_fixed(old) ELSE 0
          [] fn = "SysTimer_SetHartMsipValue" ->
               IF fixed THEN BitAnd(loc[h].value, SysTimer_MSIP_Msk)
               ELSE loc[h].value
          [] fn = "SysTimer_SendIPI" -> 1
          [] fn = "SysTimer_ClearIPI" -> 0

\* The first access of Set/ClearHartSWIRQ: the load of the |= / &= on the
\* fixed register, the __SW on the indexed region.
SWIRQEntry(hartid) == IF IsHart0(hartid) THEN "MS_load" ELSE "MS_store"

Call_SetHartSWIRQ(h, hartid) ==
    Enter(h, "SysTimer_SetHartSWIRQ", 0, hartid, SWIRQEntry(hartid))

Call_ClearHartSWIRQ(h, hartid) ==
    Enter(h, "SysTimer_ClearHartSWIRQ", 0, hartid, SWIRQEntry(hartid))

Call_GetHartMsipValue(h, hartid) ==
    Enter(h, "SysTimer_GetHartMsipValue", 0, hartid, "MG_load")

Call_SetHartMsipValue(h, msip, hartid) ==
    Enter(h, "SysTimer_SetHartMsipValue", msip, hartid, "MS_store")

Call_SendIPI(h, hartid) ==
    Enter(h, "SysTimer_SendIPI", 0, hartid, "MS_store")

Call_ClearIPI(h, hartid) ==
    Enter(h, "SysTimer_ClearIPI", 0, hartid, "MS_store")

MS_frame ==
    UNCHANGED <<hw, MSFTRST, op, snap, seen, nticks, exc, pre, prev, last_swirq,
                trp, sys>>

\* The load of SysTimer->MSIP |= ... / &= ...
MS_load(h) ==
    /\ pc[h] = "MS_load"
    /\ LET t == Target(h)
       IN  /\ LogLoad(h, Ld(t.reg, t.idx, 0, 4))
           /\ Advance(h, "MS_store", [loc[h] EXCEPT !.low = LoadMsip(t)])
    /\ UNCHANGED <<MSIP, CLINT_MSIP, stores>>
    /\ MS_frame

\* The store of SysTimer->MSIP |= ... / &= ... / = ..., or __SW(addr, ...)
MS_store(h) ==
    /\ pc[h] = "MS_store"
    /\ LET t == Target(h)
           v == MsipStored(h, loc[h].low)
       IN  /\ StoreMsip(t, v)
           /\ Log(h, St(t.reg, t.idx, 0, 4, v))
    /\ Advance(h, "done", loc[h])
    /\ UNCHANGED loads
    /\ MS_frame

\* return (uint32_t)(SysTimer->MSIP & SysTimer_MSIP_Msk); / return __LW(addr);
MG_load(h) ==
    /\ pc[h] = "MG_load"
    /\ LET t == Target(h)
           raw == LoadMsip(t)
       IN  /\ LogLoad(h, Ld(t.reg, t.idx, 0, 4))
           /\ Advance(h, "done",
                      [loc[h] EXCEPT !.ret =
                          IF IsHart0(loc[h].hartid)
                          THEN BitAnd(raw, SysTimer_MSIP_Msk)
                          ELSE raw])
    /\ UNCHANGED <<MSIP, CLINT_MSIP, stores>>
    /\ MS_frame

(* ------------------- calls of the self-targeting wrappers ---------------- *)
Call_SetCompareValue_hart0(h, value) ==
    Begin(h, "SysTimer_SetCompareValue", 0, value, 0, SCEntry)
Call_SetCompareValue(h, value) ==
    Begin(h, "SysTimer_SetCompareValue", 0, value, SysTimer_GetHartID(h), SCEntry)

Call_GetCompareValue(h) ==
    Enter(h, "SysTimer_GetCompareValue", 0, SysTimer_GetHartID(h),
             GCEntry(SysTimer_GetHartID(h)))

Call_SetSWIRQ(h) ==
    Enter(h, "SysTimer_SetSWIRQ", 0, SysTimer_GetHartID(h),
             SWIRQEntry(SysTimer_GetHartID(h)))

Call_ClearSWIRQ(h) ==
    Enter(h, "SysTimer_ClearSWIRQ", 0, SysTimer_GetHartID(h),
             SWIRQEntry(SysTimer_GetHartID(h)))

Call_GetMsipValue(h) ==
    Enter(h, "SysTimer_GetMsipValue", 0, SysTimer_GetHartID(h), "MG_load")

Call_SetMsipValue(h, msip) ==
    Enter(h, "SysTimer_SetMsipValue", msip, SysTimer_GetHartID(h), "MS_store")

\* SysTimer_SetCompareValue entered whatever the other harts are executing.
Par_SetCompareValue(h, value) ==
    Invoke(h, "SysTimer_SetCompareValue", 0, value, SysTimer_GetHartID(h), SCEntry)

(* ------------------------ timer interrupt handler ----------------------- *)
\* The counter counts while no call is in progress; a pending interrupt
\* that has a handler is taken before the counter counts on.
CounterTick ==
    /\ AllIdle
    /\ \A h \in Harts : isr_ticks[h] > 0 => ~TimerPending(h)
    /\ ~BitSet(MTIMECTL, SysTimer_MTIMECTL_TIMESTOP_Msk)
    /\ MTIMER' = IF /\ BitSet(MTIMECTL, SysTimer_MTIMECTL_CMPCLREN_Msk)
                    /\ MTIMER >= MTIMERCMP
                 THEN 0
                 ELSE Add64(MTIMER, 1)
    /\ UNCHANGED <<xlen, MTIMERCMP, CLINT_MTIMECMP, MTIMECTL, eclic>>
    /\ UNCHANGED <<cpu, nticks, exc, ext>>

\* The counter counts during the handler's SysTick_Reload(ticks), by fewer
\* than ticks in all.
HandlerTick ==
    /\ \E h \in Harts : InFlight(h) /\ nticks + 1 < isr_ticks[h]
    /\ Tick

\* The timer interrupt of hart h is taken while it is pending, and its
\* handler calls SysTick_Reload(ticks).
TimerIsr_enter(h) ==
    /\ isr_ticks[h] > 0
    /\ TimerPending(h)
    /\ Call_Reload(h, isr_ticks[h])

\* SysTick_Reload has returned and the handler returns from the interrupt.
TimerIsr_return(h) ==
    /\ op[h] = "SysTick_Reload" /\ pc[h] = "done"
    /\ pc' = [pc EXCEPT ![h] = "idle"]
    /\ op' = [op EXCEPT ![h] = "none"]
    /\ loc' = [loc EXCEPT ![h] = Loc0]
    /\ stores' = [stores EXCEPT ![h] = <<>>]
    /\ seen' = [seen EXCEPT ![h] = {}]
    /\ snap' = [snap EXCEPT ![h] = [MTIMER |-> 0, cmp |-> 0]]
    /\ nticks' = 0
    /\ UNCHANGED <<hw, exc, ext>>

\* The timer interrupt of hart h: entry, the instructions of the handler,
\* return.
TimerIsr(h) ==
    \/ TimerIsr_enter(h)
    \/ SysTimer_GetLoadValue(h)
    \/ SysTimer_SetLoadValue(h)
    \/ SysTimer_SetHartCompareValue(h)
    \/ TimerIsr_return(h)

(* ------------------------ core_exception_handler ------------------------ *)
\* No trap taken yet.
Trap0 == [mcause |-> 0, sp |-> 0, EXCn |-> 0, exc_handler |-> 0, ret |-> 0]

\* mcause values of a trap: exception codes at both ends of the table and
\* beyond it, alone and with bits above the low 12 set.
TrapCauses ==
    LET codes == {0, MAX_SYSTEM_EXCEPTION_NUM - 1, MAX_SYSTEM_EXCEPTION_NUM}
    IN  codes \cup {4096 + c : c \in codes}
\* sp of a trap: the address of the saved frame, never 0.
TrapFrames == {Trap0.sp + 1}

\* uint32_t EXCn = (uint32_t)(mcause & 0X00000fff);
core_exception_handler_EXCn_unmasked(mcause) == mcause
core_exception_handler_EXCn(mcause) == BitAnd(mcause, 4095)

\* if (EXCn < MAX_SYSTEM_EXCEPTION_NUM)
\*     exc_handler = (EXC_HANDLER)SystemExceptionHandlers[EXCn];
\* else exc_handler = (EXC_HANDLER)system_default_exception_handler;
core_exception_handler_select(tbl, EXCn) ==
    IF EXCn < MAX_SYSTEM_EXCEPTION_NUM
    THEN tbl[EXCn]
    ELSE system_default_exception_handler

\* while (1) { __WFI(); }
system_default_exception_handler_while_exits(body, exit) == exit
system_default_exception_handler_while(body, exit) == body

\* The main program, where the exception table API is called.
NotInTrap == trap_pc \in {"none", "returned"}

TRAP_frame == UNCHANGED <<hw, cpu, nticks, exc, swi, hist, sys>>

\* The hart traps and the trap entry calls core_exception_handler(mcause, sp).
Trap(mcause, sp) ==
    /\ NotInTrap
    /\ trap' = [Trap0 EXCEPT !.mcause = mcause, !.sp = sp]
    /\ invoked' = <<>>
    /\ trap_pc' = "CEH_select"
    /\ TRAP_frame

\* EXCn = mcause & 0xfff; the choice of exc_handler; if (exc_handler != NULL)
CEH_select ==
    /\ trap_pc = "CEH_select"
    /\ LET EXCn == core_exception_handler_EXCn(trap.mcause)
           exc_handler ==
               core_exception_handler_select(SystemExceptionHandlers, EXCn)
       IN  /\ trap' = [trap EXCEPT !.EXCn = EXCn, !.exc_handler = exc_handler]
           /\ trap_pc' = IF exc_handler # 0 THEN "CEH_call" ELSE "CEH_return"
    /\ UNCHANGED invoked
    /\ TRAP_frame

\* exc_handler(mcause, sp);
CEH_call ==
    /\ trap_pc = "CEH_call"
    /\ invoked' = Append(invoked, [handler |-> trap.exc_handler,
                                   mcause |-> trap.mcause, sp |-> trap.sp])
    /\ trap_pc' = IF trap.exc_handler = system_default_exception_handler
                  THEN "DH_debug"
                  ELSE "UH"
    /\ UNCHANGED trap
    /\ TRAP_frame

\* A registered handler returns to core_exception_handler.
UH_return ==
    /\ trap_pc = "UH"
    /\ trap_pc' = "CEH_return"
    /\ UNCHANGED <<trap, invoked>>
    /\ TRAP_frame

\* system_default_exception_handler: the printf / Exception_DumpFrame block,
\* which ends the run in simulation_exit(1) under SIMULATION_MODE.
DH_debug ==
    /\ trap_pc = "DH_debug"
    /\ trap_pc' \in {"DH_simulation_exit", "DH_while"}
    /\ UNCHANGED <<trap, invoked>>
    /\ TRAP_frame

\* while (1) {
DH_while ==
    /\ trap_pc = "DH_while"
    /\ trap_pc' = system_default_exception_handler_while("DH_wfi", "CEH_return")
    /\ UNCHANGED <<trap, invoked>>
    /\ TRAP_frame

\* __WFI(); }
DH_wfi ==
    /\ trap_pc = "DH_wfi"
    /\ trap_pc' = "DH_while"
    /\ UNCHANGED <<trap, invoked>>
    /\ TRAP_frame

\* return 0;
core_exception_handler_return_handler(exc_handler) == exc_handler
core_exception_handler_return(exc_handler) == 0

\* The call returns to the trap entry; what it selected and invoked stays on
\* record until the next trap.
CEH_return ==
    /\ trap_pc = "CEH_return"
    /\ trap' = [trap EXCEPT !.ret = core_exception_handler_return(trap.exc_handler)]
    /\ trap_pc' = "returned"
    /\ UNCHANGED invoked
    /\ TRAP_frame

core_exception_handler ==
    \/ CEH_select
    \/ CEH_call
    \/ UH_return
    \/ DH_debug
    \/ DH_while
    \/ DH_wfi
    \/ CEH_return

(* --------------------------- IRQC_Register_IRQ --------------------------- *)
\* Number of interrupt sources: the size of the interrupt vector table.
SOC_INT_MAX == 32
\* The stub every slot of the vector table holds at build time.
default_irq_handler == 1
\* The handler the application registers.
plic_uart0_handler == 2

\* IRQn arguments: both ends of the vector table and the first two numbers
\* beyond it.
IrqArgs == {0, SOC_INT_MAX - 1, SOC_INT_MAX, SOC_INT_MAX + 1}
\* handler arguments: NULL and a handler.
IrqHandlerArgs == {0, plic_uart0_handler}
\* The words IRQC_SetVector can write: the table and what lies behind it.
IrqWords == 0 .. (SOC_INT_MAX + 1)

\* IRQC_SetVector(IRQn, (rv_csr_t)handler): the word at index IRQn of the
\* vector table is written, with no range check of its own.
IRQC_SetVector(vec, IRQn, handler) == [vec EXCEPT ![IRQn] = handler]
\* IRQC_EnableIRQ(IRQn)
IRQC_EnableIRQ(enabled, IRQn) == enabled \cup {IRQn}

IrqCall(fn, IRQn, handler, ret) ==
    [fn |-> fn, IRQn |-> IRQn, handler |-> handler, ret |-> ret]

\* int32_t IRQC_Register_IRQ(IRQn_Type IRQn, void* handler)
\* if (IRQn >= SOC_INT_MAX) { }                       -- an empty body
\* if (handler != NULL) { IRQC_SetVector(IRQn, (rv_csr_t)handler); }
\* IRQC_EnableIRQ(IRQn);
\* return 0;
Call_IRQC_Register_IRQ(IRQn, handler) ==
    /\ irq_vector' = IF handler # 0
                     THEN IRQC_SetVector(irq_vector, IRQn, handler)
                     ELSE irq_vector
    /\ irq_enabled' = IRQC_EnableIRQ(irq_enabled, IRQn)
    /\ irq_call' = IrqCall("IRQC_Register_IRQ", IRQn, handler, 0)
    /\ UNCHANGED <<boot_pc, boot_log, isr_ticks>>
    /\ UNCHANGED <<hw, cpu, nticks, exc, swi, hist, trp>>

(* ------------------------------ _premain_init ---------------------------- *)
\* The calls of _premain_init, in program order.
premain_init_calls_init_last ==
    <<"get_cpu_freq", "uart_init", "SystemBannerPrint", "Interrupt_Init",
      "Trap_Init", "Exception_Init">>
premain_init_calls ==
    <<"get_cpu_freq", "uart_init", "SystemBannerPrint", "Exception_Init",
      "Interrupt_Init", "Trap_Init">>

BOOT_frame == UNCHANGED <<hw, cpu, nticks, swi, hist, trp, irq_vector,
                          irq_enabled, irq_call, isr_ticks>>

\* The startup code calls _premain_init right before main.
Boot_enter ==
    /\ boot_pc = "reset"
    /\ NotInTrap
    /\ boot_pc' = "_premain_init"
    /\ UNCHANGED <<boot_log, exc>>
    /\ BOOT_frame

\* The next call of _premain_init.  Exception_Init fills the table;
\* Interrupt_Init and Trap_Init have empty bodies; the clock, UART and banner
\* calls touch none of the modelled state.
Boot_call ==
    /\ boot_pc = "_premain_init"
    /\ NotInTrap
    /\ Len(boot_log) < Len(premain_init_calls)
    /\ LET f == premain_init_calls[Len(boot_log) + 1]
       IN  /\ boot_log' = Append(boot_log, f)
           /\ IF f = "Exception_Init"
              THEN /\ SystemExceptionHandlers' =
                          Exception_Init_loop(SystemExceptionHandlers, 0)
                   /\ exc_call' = ExcCall("Exception_Init", 0, 0, 0)
                   /\ exc_log' = Append(exc_log, exc_call')
              ELSE UNCHANGED exc
    /\ UNCHANGED boot_pc
    /\ BOOT_frame

\* _premain_init returns and main runs.
Boot_return ==
    /\ boot_pc = "_premain_init"
    /\ NotInTrap
    /\ Len(boot_log) = Len(premain_init_calls)
    /\ boot_pc' = "main"
    /\ UNCHANGED <<boot_log, exc>>
    /\ BOOT_frame

(* ------------------------------ initial states -------------------------- *)
\* A compare register nobody has programmed holds all ones.
ResetCmp == FullMod - 1

\* The values around every carry and wrap boundary of a 64-bit register.
Boundary ==
    {0, 1, HalfMod - 1, HalfMod, HalfMod + 1,
     FullMod - HalfMod, FullMod - 2, FullMod - 1}
\* Argument values of the calls and initial register values: every value at
\* the base width, the boundary values at larger widths.
ArgVals == IF HalfBits <= 2 THEN Full ELSE Boundary

Running == {0}
Halted == {SysTimer_MTIMECTL_TIMESTOP_Msk}
RunningOrHalted == {0, SysTimer_MTIMECTL_TIMESTOP_Msk}

\* The timer at an arbitrary moment: the counter holds one of counterVals,
\* at most one hart's compare register has been programmed (to one of
\* cmpVals), and MTIMECTL holds one of ctlVals.
TimerInit(counterVals, cmpVals, ctlVals) ==
    /\ xlen \in {32, 64}
    /\ MTIMER \in counterVals
    /\ MTIMECTL \in ctlVals
    /\ \E t \in Harts, v \in cmpVals :
          /\ MTIMERCMP = IF t = 0 THEN v ELSE ResetCmp
          /\ CLINT_MTIMECMP =
                 [i \in Harts |-> IF i = t /\ i # 0 THEN v ELSE ResetCmp]
    /\ eclic = [shv |-> "reset", level |-> 0, enabled |-> FALSE]

CpuInit ==
    /\ pc = [h \in Harts |-> "idle"]
    /\ op = [h \in Harts |-> "none"]
    /\ loc = [h \in Harts |-> Loc0]
    /\ stores = [h \in Harts |-> <<>>]
    /\ snap = [h \in Harts |-> [MTIMER |-> 0, cmp |-> 0]]
    /\ seen = [h \in Harts |-> {}]
    /\ nticks = 0

\* The software interrupt registers hold any of msipVals, and no reset has
\* been requested.
SwiInit(msipVals) ==
    /\ MSIP \in msipVals
    /\ CLINT_MSIP \in [Harts -> msipVals]
    /\ MSFTRST = 0
SwiReset == SwiInit({0})

\* No call has been made and no trap has been taken.
HistInit ==
    /\ loads = [h \in Harts |-> <<>>]
    /\ pre = [MTIMECTL |-> MTIMECTL, MSIP |-> MSIP, CLINT_MSIP |-> CLINT_MSIP]
    /\ prev = NoCall
    /\ last_swirq = [t \in Harts |-> "none"]

TrapInit ==
    /\ trap_pc = "none"
    /\ trap = Trap0
    /\ invoked = <<>>

\* static unsigned long SystemExceptionHandlers[MAX_SYSTEM_EXCEPTION_NUM];
ExcInit ==
    /\ SystemExceptionHandlers = [i \in 0 .. (MAX_SYSTEM_EXCEPTION_NUM - 1) |-> 0]
    /\ exc_call = ExcCall("none", 0, 0, 0)
    /\ exc_log = <<>>

\* The vector table as built, no interrupt enabled, _premain_init not yet
\* entered, no timer interrupt handler installed.
IrqInit ==
    /\ irq_vector = [i \in IrqWords |-> default_irq_handler]
    /\ irq_enabled = {}
    /\ irq_call = IrqCall("none", 0, 0, 0)
BootInit ==
    /\ boot_pc = "reset"
    /\ boot_log = <<>>
NoTimerIsr == isr_ticks = [h \in Harts |-> 0]
SysInit == IrqInit /\ BootInit /\ NoTimerIsr

\* The state the timer specifications leave alone: software interrupt
\* registers at reset, no earlier call, no trap, nothing of the SoC set up.
Quiet == SwiReset /\ HistInit /\ TrapInit /\ SysInit

(* ------------------------------ specifications -------------------------- *)
\* One call of SysTimer_GetLoadValue against the running counter.
InitGetLoad == TimerInit(Full, {ResetCmp}, Running) /\ CpuInit /\ ExcInit /\ Quiet
NextGetLoad ==
    \/ Tick
    \/ \E h \in Harts : Call_GetLoadValue(h)
    \/ \E h \in Harts : SysTimer_GetLoadValue(h)
SpecGetLoad == InitGetLoad /\ [][NextGetLoad]_vars

\* One call of SysTimer_SetHartCompareValue, from any compare value.
InitSetCompare == TimerInit(ArgVals, ArgVals, Running) /\ CpuInit /\ ExcInit /\ Quiet
NextSetCompare ==
    \/ Tick
    \/ \E h \in Harts, hartid \in Harts, value \in ArgVals :
           Call_SetHartCompareValue(h, value, hartid)
    \/ \E h \in Harts : SysTimer_SetHartCompareValue(h)
SpecSetCompare == InitSetCompare /\ [][NextSetCompare]_vars

\* One call of SysTimer_SetLoadValue.
InitSetLoad == TimerInit(Full, {ResetCmp}, RunningOrHalted) /\ CpuInit /\ ExcInit /\ Quiet
NextSetLoad ==
    \/ Tick
    \/ \E h \in Harts, value \in ArgVals : Call_SetLoadValue(h, value)
    \/ \E h \in Harts : SysTimer_SetLoadValue(h)
SpecSetLoad == InitSetLoad /\ [][NextSetLoad]_vars

\* One call of SysTick_Reload or SysTick_HartReload.
InitReload == TimerInit(ArgVals, {ResetCmp}, Running) /\ CpuInit /\ ExcInit /\ Quiet
NextReload ==
    \/ Tick
    \/ \E h \in Harts, ticks \in ArgVals : Call_Reload(h, ticks)
    \/ \E h \in Harts, hartid \in Harts, ticks \in ArgVals :
           Call_HartReload(h, ticks, hartid)
    \/ \E h \in Harts : SysTimer_GetLoadValue(h)
    \/ \E h \in Harts : SysTimer_SetLoadValue(h)
    \/ \E h \in Harts : SysTimer_SetHartCompareValue(h)
SpecReload == InitReload /\ [][NextReload]_vars

\* One call of SysTick_Config or SysTick_HartConfig.
InitConfig == TimerInit(ArgVals, {ResetCmp}, Running) /\ CpuInit /\ ExcInit /\ Quiet
NextConfig ==
    \/ Tick
    \/ \E h \in Harts, ticks \in ArgVals : Call_Config(h, ticks)
    \/ \E h \in Harts, hartid \in Harts, ticks \in ArgVals :
           Call_HartConfig(h, ticks, hartid)
    \/ \E h \in Harts : SysTimer_GetLoadValue(h)
    \/ \E h \in Harts : SysTimer_SetHartCompareValue(h)
    \/ \E h \in Harts : Config_ECLIC(h)
SpecConfig == InitConfig /\ [][NextConfig]_vars

\* The exception table API, called in any order on a quiescent timer.
InitException == TimerInit({0}, {ResetCmp}, Running) /\ CpuInit /\ ExcInit /\ Quiet
NextException ==
    \/ Call_Exception_Init
    \/ \E EXCn \in RegisterCodes, exc_handler \in HandlerArgs :
           Call_Exception_Register_EXC(EXCn, exc_handler)
    \/ \E EXCn \in GetCodes : Call_Exception_Get_EXC(EXCn)
SpecException == InitException /\ [][NextException]_vars

\* Traps dispatched by core_exception_handler, between calls of the
\* exception table API by the main program.
InitTrap == TimerInit({0}, {ResetCmp}, Running) /\ CpuInit /\ ExcInit /\ Quiet
NextTrap ==
    \/ NotInTrap /\ Call_Exception_Init
    \/ \E EXCn \in RegisterCodes, exc_handler \in HandlerArgs :
           NotInTrap /\ Call_Exception_Register_EXC(EXCn, exc_handler)
    \/ \E mcause \in TrapCauses, sp \in TrapFrames : Trap(mcause, sp)
    \/ core_exception_handler
SpecTrap == InitTrap /\ [][NextTrap]_vars

\* Calls of the MTIMECTL functions and of SysTimer_SoftwareReset, one after
\* another, from any control register value.
InitControl == TimerInit({0}, {ResetCmp}, CtlVals) /\ CpuInit /\ ExcInit /\ Quiet
NextControl ==
    \/ \E h \in Harts, mctl \in CtlVals :
           Call_SetControlValue(h, mctl) /\ TrackPrev
    \/ \E h \in Harts : Call_GetControlValue(h) /\ TrackPrev
    \/ \E h \in Harts : Call_Start(h) /\ TrackPrev
    \/ \E h \in Harts : Call_Stop(h) /\ TrackPrev
    \/ \E h \in Harts : Call_SoftwareReset(h) /\ TrackPrev
    \/ \E h \in Harts : CV_store(h)
    \/ \E h \in Harts : CV_load(h)
    \/ \E h \in Harts : RMW_load(h)
    \/ \E h \in Harts : RMW_store(h)
    \/ \E h \in Harts : SR_store(h)
    \/ \E h \in Harts : SR_while(h)
SpecControl == InitControl /\ [][NextControl]_vars

\* The software interrupt registers at an arbitrary moment.
InitMsip ==
    /\ TimerInit({0}, {ResetCmp}, Running)
    /\ CpuInit
    /\ ExcInit
    /\ SwiInit(MsipVals)
    /\ HistInit
    /\ TrapInit
    /\ SysInit

\* One call of a hart-qualified compare or MSIP accessor.
InitHartRegs ==
    /\ TimerInit({0}, {ResetCmp}, Running)
    /\ CpuInit
    /\ ExcInit
    /\ SwiInit(MsipVals)
    /\ HistInit
    /\ TrapInit
    /\ SysInit
NextHartRegs ==
    \/ \E h \in Harts, hartid \in Harts, value \in ArgVals :
           Call_SetHartCompareValue(h, value, hartid)
    \/ \E h \in Harts, hartid \in Harts :
           AllIdle /\ Call_GetHartCompareValue(h, hartid) /\ NoTrack
    \/ \E h \in Harts, hartid \in Harts :
           AllIdle /\ Call_SetHartSWIRQ(h, hartid) /\ NoTrack
    \/ \E h \in Harts, hartid \in Harts :
           AllIdle /\ Call_ClearHartSWIRQ(h, hartid) /\ NoTrack
    \/ \E h \in Harts, hartid \in Harts :
           AllIdle /\ Call_GetHartMsipValue(h, hartid) /\ NoTrack
    \/ \E h \in Harts, hartid \in Harts, msip \in MsipVals :
           AllIdle /\ Call_SetHartMsipValue(h, msip, hartid) /\ NoTrack
    \/ \E h \in Harts : SysTimer_SetHartCompareValue(h)
    \/ \E h \in Harts : SysTimer_GetHartCompareValue(h)
    \/ \E h \in Harts : MS_load(h)
    \/ \E h \in Harts : MS_store(h)
    \/ \E h \in Harts : MG_load(h)
SpecHartRegs == InitHartRegs /\ [][NextHartRegs]_vars

\* SysTimer_SendIPI / SysTimer_ClearIPI and the MSIP accessors, one after
\* another.
NextIPI ==
    \/ \E h \in Harts, hartid \in Harts : Call_SendIPI(h, hartid) /\ TrackPrev
    \/ \E h \in Harts, hartid \in Harts : Call_ClearIPI(h, hartid) /\ TrackPrev
    \/ \E h \in Harts, hartid \in Harts :
           Call_SetHartSWIRQ(h, hartid) /\ TrackPrev
    \/ \E h \in Harts, hartid \in Harts :
           Call_GetHartMsipValue(h, hartid) /\ TrackPrev
    \/ \E h \in Harts : MS_load(h)
    \/ \E h \in Harts : MS_store(h)
    \/ \E h \in Harts : MG_load(h)
SpecIPI == InitMsip /\ [][NextIPI]_vars

\* SysTimer_SetHartSWIRQ / SysTimer_ClearHartSWIRQ / SysTimer_GetHartMsipValue
\* on arbitrary harts, one after another.
NextSWIRQ ==
    \/ \E h \in Harts, hartid \in Harts :
           Call_SetHartSWIRQ(h, hartid) /\ TrackSWIRQ("Set", hartid)
    \/ \E h \in Harts, hartid \in Harts :
           Call_ClearHartSWIRQ(h, hartid) /\ TrackSWIRQ("Clear", hartid)
    \/ \E h \in Harts, hartid \in Harts :
           Call_GetHartMsipValue(h, hartid) /\ NoTrack
    \/ \E h \in Harts : MS_load(h)
    \/ \E h \in Harts : MS_store(h)
    \/ \E h \in Harts : MG_load(h)
SpecSWIRQ == InitMsip /\ [][NextSWIRQ]_vars

\* IRQC_Register_IRQ called with any interrupt number and handler, in any
\* order.
InitIRQ == TimerInit({0}, {ResetCmp}, Running) /\ CpuInit /\ ExcInit /\ Quiet
NextIRQ ==
    \E IRQn \in IrqArgs, handler \in IrqHandlerArgs :
        Call_IRQC_Register_IRQ(IRQn, handler)
SpecIRQ == InitIRQ /\ [][NextIRQ]_vars

\* One SysTimer_SetHartCompareValue on one hart and one
\* SysTimer_GetHartCompareValue on another, their loads and stores
\* interleaved in every order.
InitRace == TimerInit({0}, ArgVals, Running) /\ CpuInit /\ ExcInit /\ Quiet
NextRace ==
    \/ \E h \in Harts, hartid \in Harts, value \in ArgVals :
           /\ \A g \in Harts : op[g] # "SysTimer_SetHartCompareValue"
           /\ Par_SetHartCompareValue(h, value, hartid)
    \/ \E h \in Harts, hartid \in Harts :
           /\ \A g \in Harts : op[g] # "SysTimer_GetHartCompareValue"
           /\ Par_GetHartCompareValue(h, hartid)
    \/ \E h \in Harts : SysTimer_SetHartCompareValue(h)
    \/ \E h \in Harts : SysTimer_GetHartCompareValue(h)
SpecRace == InitRace /\ [][NextRace]_vars

\* The boot hart running _premain_init and then a main program that
\* registers handlers, with traps taken at any point of either.
InitBoot == TimerInit({0}, {ResetCmp}, Running) /\ CpuInit /\ ExcInit /\ Quiet
NextBoot ==
    \/ Boot_enter
    \/ Boot_call
    \/ Boot_return
    \/ \E EXCn \in RegisterCodes, exc_handler \in HandlerArgs :
           /\ boot_pc = "main"
           /\ NotInTrap
           /\ Call_Exception_Register_EXC(EXCn, exc_handler)
    \/ \E mcause \in TrapCauses, sp \in TrapFrames : Trap(mcause, sp)
    \/ core_exception_handler
SpecBoot == InitBoot /\ [][NextBoot]_vars

\* SysTimer_SetHartMsipValue / SysTimer_GetHartMsipValue on arbitrary harts,
\* one after another.
NextMsipValue ==
    \/ \E h \in Harts, hartid \in Harts, msip \in MsipVals :
           Call_SetHartMsipValue(h, msip, hartid) /\ TrackPrev
    \/ \E h \in Harts, hartid \in Harts :
           Call_GetHartMsipValue(h, hartid) /\ TrackPrev
    \/ \E h \in Harts : MS_store(h)
    \/ \E h \in Harts : MG_load(h)
SpecMsipValue == InitMsip /\ [][NextMsipValue]_vars

\* One call of a counter or compare accessor on a halted counter, on either
\* build.  The high half cannot change between the loads of
\* SysTimer_GetLoadValue, so its re-read of the low half has no step here.
InitPaths == TimerInit(ArgVals, ArgVals, Halted) /\ CpuInit /\ ExcInit /\ Quiet
NextPaths ==
    \/ \E h \in Harts, value \in ArgVals : Call_SetLoadValue(h, value)
    \/ \E h \in Harts : Call_GetLoadValue(h)
    \/ \E h \in Harts, hartid \in Harts, value \in ArgVals :
           Call_SetHartCompareValue(h, value, hartid)
    \/ \E h \in Harts, hartid \in Harts :
           AllIdle /\ Call_GetHartCompareValue(h, hartid) /\ NoTrack
    \/ \E h \in Harts : SysTimer_SetLoadValue(h)
    \/ \E h \in Harts : GL_high0(h)
    \/ \E h \in Harts : GL_low(h)
    \/ \E h \in Harts : GL_high(h)
    \/ \E h \in Harts : GL_ld(h)
    \/ \E h \in Harts : SysTimer_SetHartCompareValue(h)
    \/ \E h \in Harts : SysTimer_GetHartCompareValue(h)
SpecPaths == InitPaths /\ [][NextPaths]_vars

\* One call of a self-targeting wrapper or of a hart-qualified function,
\* on a halted counter.
\* The timer functions never touch the software-interrupt registers and the
\* software-interrupt functions never touch the timer registers: the initial
\* states vary one group of registers at a time.
WrapCounterVals == {0, FullMod - 1}
InitWrappers ==
    /\ \/ TimerInit(WrapCounterVals, ArgVals, Halted) /\ SwiReset
       \/ TimerInit({0}, {ResetCmp}, Halted) /\ SwiInit(MsipVals)
    /\ CpuInit
    /\ ExcInit
    /\ HistInit
    /\ TrapInit
    /\ SysInit
NextWrappers ==
    \/ \E h \in Harts, value \in ArgVals : Call_SetCompareValue(h, value)
    \/ \E h \in Harts, hartid \in Harts, value \in ArgVals :
           Call_SetHartCompareValue(h, value, hartid)
    \/ \E h \in Harts : AllIdle /\ Call_GetCompareValue(h) /\ NoTrack
    \/ \E h \in Harts, hartid \in Harts :
           AllIdle /\ Call_GetHartCompareValue(h, hartid) /\ NoTrack
    \/ \E h \in Harts : AllIdle /\ Call_SetSWIRQ(h) /\ NoTrack
    \/ \E h \in Harts, hartid \in Harts :
           AllIdle /\ Call_SetHartSWIRQ(h, hartid) /\ NoTrack
    \/ \E h \in Harts : AllIdle /\ Call_ClearSWIRQ(h) /\ NoTrack
    \/ \E h \in Harts, hartid \in Harts :
           AllIdle /\ Call_ClearHartSWIRQ(h, hartid) /\ NoTrack
    \/ \E h \in Harts : AllIdle /\ Call_GetMsipValue(h) /\ NoTrack
    \/ \E h \in Harts, hartid \in Harts :
           AllIdle /\ Call_GetHartMsipValue(h, hartid) /\ NoTrack
    \/ \E h \in Harts, msip \in MsipVals :
           AllIdle /\ Call_SetMsipValue(h, msip) /\ NoTrack
    \/ \E h \in Harts, hartid \in Harts, msip \in MsipVals :
           AllIdle /\ Call_SetHartMsipValue(h, msip, hartid) /\ NoTrack
    \/ \E h \in Harts, ticks \in ArgVals : Call_Reload(h, ticks)
    \/ \E h \in Harts, hartid \in Harts, ticks \in ArgVals :
           Call_HartReload(h, ticks, hartid)
    \/ \E h \in Harts : GL_high0(h)
    \/ \E h \in Harts : GL_low(h)
    \/ \E h \in Harts : GL_high(h)
    \/ \E h \in Harts : GL_ld(h)
    \/ \E h \in Harts : SysTimer_SetLoadValue(h)
    \/ \E h \in Harts : SysTimer_SetHartCompareValue(h)
    \/ \E h \in Harts : SysTimer_GetHartCompareValue(h)
    \/ \E h \in Harts : MS_load(h)
    \/ \E h \in Harts : MS_store(h)
    \/ \E h \in Harts : MG_load(h)
SpecWrappers == InitWrappers /\ [][NextWrappers]_vars

\* Every hart calls SysTimer_SetCompareValue once, the calls overlapping in
\* every way.
InitOwnCompare == TimerInit({0}, {ResetCmp}, Running) /\ CpuInit /\ ExcInit /\ Quiet
NextOwnCompare ==
    \/ \E h \in Harts, value \in ArgVals : Par_SetCompareValue(h, value)
    \/ \E h \in Harts : SysTimer_SetHartCompareValue(h)
SpecOwnCompare == InitOwnCompare /\ [][NextOwnCompare]_vars

\* A periodic tick: the counter runs, one hart's compare register has been
\* programmed to ticks from counter 0, and that hart's timer interrupt
\* handler calls SysTick_Reload(ticks).
PeriodVals == {1, 2, MaxTicks + 1, HalfMod + 1}
InitPeriodic ==
    /\ TimerInit({0}, PeriodVals, Running)
    /\ CpuInit
    /\ ExcInit
    /\ SwiReset
    /\ HistInit
    /\ TrapInit
    /\ IrqInit
    /\ BootInit
    /\ isr_ticks = [h \in Harts |->
                        IF LoadCmp(h) \in PeriodVals THEN LoadCmp(h) ELSE 0]
NextPeriodic ==
    \/ CounterTick
    \/ HandlerTick
    \/ \E h \in Harts : TimerIsr(h)
\* The counter keeps counting, and a hart takes its pending interrupt and
\* keeps executing its instructions.
SpecPeriodic ==
    /\ InitPeriodic
    /\ [][NextPeriodic]_vars
    /\ WF_vars(CounterTick)
    /\ \A h \in Harts : WF_vars(TimerIsr(h))

(* ================================ claims ================================ *)
\* The stores SysTimer_SetLoadValue(v) is documented to issue, in order.
SetLoadValueStores(v) ==
    IF xlen = 32
    THEN <<St("MTIMER", 0, 0, 4, 0),
           St("MTIMER", 0, 4, 4, High32(v)),
           St("MTIMER", 0, 0, 4, Low32(v))>>
    ELSE <<St("MTIMER", 0, 0, 8, v)>>

\* The stores SysTimer_SetHartCompareValue(v, t) is documented to issue.
SetCompareStores(v, t) ==
    IF xlen = 32
    THEN <<St(CmpName(t), CmpIndex(t), 0, 4, AllOnes32),
           St(CmpName(t), CmpIndex(t), 4, 4, High32(v)),
           St(CmpName(t), CmpIndex(t), 0, 4, Low32(v))>>
    ELSE <<St(CmpName(t), CmpIndex(t), 0, 8, v)>>

\* The call of hart h has issued exactly the first n stores of expected.
IssuedPrefix(h, expected, n) ==
    /\ Len(stores[h]) = n
    /\ stores[h] = SubSeq(expected, 1, n)

\* Stores issued by the 32-bit three-store sequences at each position.
StoresAt(l) ==
    CASE l \in {"SL_high", "SC_high"} -> 1
      [] l \in {"SL_low", "SC_low"} -> 2
      [] OTHER -> 3

\* C1: on the 32-bit path, while the counter only increases and advances by
\* fewer than 2^32 ticks during the reads, SysTimer_GetLoadValue returns a
\* value the counter held at some instant between its first and last read.
C1_GetLoadValue_not_torn ==
    \A h \in Harts :
        (/\ xlen = 32
         /\ op[h] = "SysTimer_GetLoadValue"
         /\ pc[h] = "done"
         /\ nticks < HalfMod)
        => loc[h].ret \in seen[h]

\* A read during which the low half carried into the high half.
C1_witness_carry_mid_read ==
    \E h \in Harts :
        /\ xlen = 32
        /\ op[h] = "SysTimer_GetLoadValue"
        /\ pc[h] = "done"
        /\ nticks < HalfMod
        /\ loc[h].high0 # loc[h].high
        /\ loc[h].ret = MTIMER

\* C2: on the 32-bit path SysTimer_SetHartCompareValue writes the all-ones
\* low half first, then the high half, then the low half, and between these
\* stores the compare register never holds a value <= counter when both
\* the old and the new compare value are > counter.
C2_SetCompare_no_spurious_interrupt ==
    \A h \in Harts :
        (/\ xlen = 32
         /\ op[h] = "SysTimer_SetHartCompareValue"
         /\ pc[h] \in {"SC_high", "SC_low", "done"})
        => /\ IssuedPrefix(h, SetCompareStores(loc[h].value, loc[h].hartid),
                           StoresAt(pc[h]))
           /\ (snap[h].cmp > MTIMER /\ loc[h].value > MTIMER)
              => ~TimerPending(loc[h].hartid)

\* Between the stores, where the new high half with the old low half would
\* have been <= counter.
C2_witness_sentinel_needed ==
    \E h \in Harts :
        /\ xlen = 32
        /\ op[h] = "SysTimer_SetHartCompareValue"
        /\ pc[h] = "SC_low"
        /\ loc[h].hartid # 0
        /\ snap[h].cmp > MTIMER
        /\ loc[h].value > MTIMER
        /\ Join64(High32(loc[h].value), Low32(snap[h].cmp)) <= MTIMER

\* C3: on the 32-bit path SysTimer_SetLoadValue(v) stores 0 to the low half,
\* v>>32 to the high half, then the low half of v, and with the counter
\* halted the counter after each store is never larger than both the old
\* counter value and v.
C3_SetLoadValue_prevents_carry ==
    \A h \in Harts :
        (/\ xlen = 32
         /\ op[h] = "SysTimer_SetLoadValue"
         /\ pc[h] \in {"SL_high", "SL_low", "done"})
        => /\ IssuedPrefix(h, SetLoadValueStores(loc[h].value), StoresAt(pc[h]))
           /\ BitSet(MTIMECTL, SysTimer_MTIMECTL_TIMESTOP_Msk)
              => ~(MTIMER > snap[h].MTIMER /\ MTIMER > loc[h].value)

\* After the high store on a halted counter, where the old low half with
\* the new high half would have exceeded both values.
C3_witness_zeroing_needed ==
    \E h \in Harts :
        /\ xlen = 32
        /\ op[h] = "SysTimer_SetLoadValue"
        /\ pc[h] = "SL_low"
        /\ BitSet(MTIMECTL, SysTimer_MTIMECTL_TIMESTOP_Msk)
        /\ Join64(High32(loc[h].value), Low32(snap[h].MTIMER)) > snap[h].MTIMER
        /\ Join64(High32(loc[h].value), Low32(snap[h].MTIMER)) > loc[h].value

\* ticks + c exceeds the 64-bit range, for the counter value c the call read.
Wraps(h) == loc[h].ticks + loc[h].cur_ticks >= FullMod

\* C4: when ticks + c wraps, SysTick_Reload and SysTick_HartReload reset the
\* counter to 0 (and issue no other store to it) and set the target hart's
\* compare register to exactly ticks.
C4_Reload_wrap_resets_counter ==
    \A h \in Harts :
        (op[h] \in ReloadOps /\ pc[h] = "done" /\ Wraps(h))
        => /\ stores[h] = SetLoadValueStores(0)
                            \o SetCompareStores(loc[h].ticks, loc[h].hartid)
           /\ LoadCmp(loc[h].hartid) = loc[h].ticks
           /\ MTIMER <= nticks

\* A wrapping reload, on either build, while the counter was running.
C4_witness_wrapped_reload ==
    \E h \in Harts :
        /\ op[h] = "SysTick_HartReload"
        /\ pc[h] = "done"
        /\ Wraps(h)
        /\ loc[h].hartid # 0
        /\ nticks > 0
        /\ loc[h].cur_ticks # snap[h].MTIMER

\* C5 as claimed: for every ticks, ticks = 0 included, such that ticks + c
\* does not wrap, the reload sets the compare register to ticks + c and
\* issues no store to the counter.
C5_original_every_ticks ==
    \A h \in Harts :
        (op[h] \in ReloadOps /\ pc[h] = "done" /\ ~Wraps(h))
        => /\ stores[h] = SetCompareStores(loc[h].ticks + loc[h].cur_ticks,
                                           loc[h].hartid)
           /\ LoadCmp(loc[h].hartid) = loc[h].ticks + loc[h].cur_ticks

\* C5 as amended: for every ticks >= 1 such that ticks + c does not wrap, the
\* reload sets the target hart's compare register to exactly ticks + c and
\* issues no store to the counter.
C5_Reload_no_wrap_direct ==
    \A h \in Harts :
        (op[h] \in ReloadOps /\ pc[h] = "done" /\ ~Wraps(h) /\ loc[h].ticks >= 1)
        => /\ stores[h] = SetCompareStores(loc[h].ticks + loc[h].cur_ticks,
                                           loc[h].hartid)
           /\ LoadCmp(loc[h].hartid) = loc[h].ticks + loc[h].cur_ticks

\* A reload that did not wrap, read a counter that had moved, and programmed
\* the indexed compare register.
C5_witness_direct_reload ==
    \E h \in Harts :
        /\ op[h] \in ReloadOps
        /\ pc[h] = "done"
        /\ ~Wraps(h)
        /\ loc[h].ticks >= 1
        /\ loc[h].hartid # 0
        /\ loc[h].cur_ticks # snap[h].MTIMER

\* C6 as claimed: when ticks + c wraps, SysTick_Config and SysTick_HartConfig
\* reset the counter to 0 and set the compare register to exactly ticks,
\* and never program a wrapped compare value smaller than the counter read.
C6_claimed_Config_overflow_policy ==
    \A h \in Harts :
        (op[h] \in ConfigOps /\ pc[h] = "done" /\ Wraps(h))
        => /\ stores[h] = SetLoadValueStores(0)
                            \o SetCompareStores(loc[h].ticks, loc[h].hartid)
           /\ LoadCmp(loc[h].hartid) = loc[h].ticks
           /\ ~(LoadCmp(loc[h].hartid) < loc[h].cur_ticks)

\* C7 as claimed: after SysTick_Config / SysTick_HartConfig returns, the
\* counter has been set to zero and the enabled timer interrupt fires when
\* the counter matches the ticks value passed.
C7_claimed_Config_zeroes_counter ==
    \A h \in Harts :
        (op[h] \in ConfigOps /\ pc[h] = "done")
        => /\ \E i \in 1 .. Len(stores[h]) :
                  stores[h][i].reg = "MTIMER" /\ stores[h][i].val = 0
           /\ LoadCmp(loc[h].hartid) = loc[h].ticks
           /\ eclic.enabled

\* Index of the last Exception_Init call in the log, 0 if there is none.
LastInit(log) ==
    LET inits == {i \in 1 .. Len(log) : log[i].fn = "Exception_Init"}
    IN  IF inits = {} THEN 0 ELSE CHOOSE i \in inits : \A j \in inits : j <= i

\* The handler of the most recent Exception_Register_EXC call made with
\* code since the last Exception_Init; the default handler if there is none.
MostRecentlyRegistered(log, code) ==
    LET regs == {i \in (LastInit(log) + 1) .. Len(log) :
                     /\ log[i].fn = "Exception_Register_EXC"
                     /\ log[i].EXCn = code}
    IN  IF regs = {} THEN system_default_exception_handler
        ELSE log[CHOOSE i \in regs : \A j \in regs : j <= i].handler

\* C8: after Exception_Init and any sequence of Exception_Register_EXC calls,
\* Exception_Get_EXC(code) for a valid code returns the handler of the most
\* recent Register call made with that code, or the default handler.
C8_Get_returns_most_recent ==
    (/\ exc_call.fn = "Exception_Get_EXC"
     /\ exc_call.EXCn < MAX_SYSTEM_EXCEPTION_NUM
     /\ LastInit(exc_log) > 0)
    => exc_call.ret = MostRecentlyRegistered(exc_log, exc_call.EXCn)

\* A Get of a code registered twice since Exception_Init, with different
\* handlers.
C8_witness_registered_twice ==
    /\ exc_call.fn = "Exception_Get_EXC"
    /\ exc_call.EXCn < MAX_SYSTEM_EXCEPTION_NUM
    /\ LastInit(exc_log) > 0
    /\ \E i, j \in (LastInit(exc_log) + 1) .. Len(exc_log) :
           /\ i < j
           /\ exc_log[i].fn = "Exception_Register_EXC"
           /\ exc_log[j].fn = "Exception_Register_EXC"
           /\ exc_log[i].EXCn = exc_call.EXCn
           /\ exc_log[j].EXCn = exc_call.EXCn
           /\ exc_log[i].handler # exc_log[j].handler
    /\ exc_call.ret # system_default_exception_handler

\* C9: Exception_Register_EXC(code, handler) with code >= 12 leaves every
\* slot of the table unchanged and changes nothing else a caller could read
\* as an error, whatever the handler and the table.
C9_Register_out_of_range_ignored ==
    [][(/\ exc_call'.fn = "Exception_Register_EXC"
        /\ exc_call'.EXCn >= MAX_SYSTEM_EXCEPTION_NUM)
       => /\ SystemExceptionHandlers' = SystemExceptionHandlers
          /\ exc_call'.ret = 0
          /\ UNCHANGED <<hw, cpu>>]_vars

\* An out-of-range registration of a user handler into a table that already
\* holds a registered handler.
C9_witness_out_of_range_register ==
    /\ exc_call.fn = "Exception_Register_EXC"
    /\ exc_call.EXCn >= MAX_SYSTEM_EXCEPTION_NUM
    /\ exc_call.handler = user_exception_handler
    /\ LastInit(exc_log) > 0
    /\ \E i \in DOMAIN SystemExceptionHandlers :
           SystemExceptionHandlers[i] # system_default_exception_handler

\* C10 as claimed: Exception_Get_EXC(EXCn) returns 0 for every
\* EXCn >= MAX_SYSTEM_EXCEPTION_NUM.
C10_claimed_Get_out_of_range_returns_0 ==
    (/\ exc_call.fn = "Exception_Get_EXC"
     /\ exc_call.EXCn >= MAX_SYSTEM_EXCEPTION_NUM)
    => exc_call.ret = 0

\* The positions of the trapped hart after core_exception_handler has passed
\* its call of exc_handler and before it has returned.
Dispatched ==
    {"UH", "DH_debug", "DH_simulation_exit", "DH_while", "DH_wfi", "CEH_return"}

\* The handler the low 12 bits of mcause select: the table slot of a code
\* below 12, the default handler otherwise.
Selected ==
    LET code == trap.mcause % 4096
    IN  IF code < MAX_SYSTEM_EXCEPTION_NUM
        THEN SystemExceptionHandlers[code]
        ELSE system_default_exception_handler

\* One invocation of handler with the unmodified arguments of the trap.
InvokedOnce(handler) ==
    invoked = <<[handler |-> handler, mcause |-> trap.mcause, sp |-> trap.sp]>>

\* C11 as claimed: core_exception_handler(mcause, sp) selects the handler by
\* the low 12 bits of mcause only (the table slot of a code < 12, the default
\* handler otherwise) and invokes the selected handler exactly once with the
\* unmodified (mcause, sp).
C11_claimed_always_invokes_selected ==
    trap_pc \in Dispatched => InvokedOnce(Selected)

\* C11 as amended: core_exception_handler selects the handler by the low 12
\* bits of mcause only; a selected handler that is not NULL is invoked
\* exactly once with the unmodified (mcause, sp), and when the selected
\* table slot holds NULL no handler is invoked.
C11_dispatch_by_low_12_bits ==
    trap_pc \in Dispatched =>
        IF Selected # 0
        THEN InvokedOnce(Selected)
        ELSE invoked = <<>> /\ trap_pc = "CEH_return"

\* A trap whose mcause has bits above the low 12 set, dispatched to the user
\* handler registered for its code, which has returned.
C11_witness_high_bits_ignored ==
    /\ trap_pc = "CEH_return"
    /\ trap.mcause >= 4096
    /\ trap.mcause % 4096 = MAX_SYSTEM_EXCEPTION_NUM - 1
    /\ trap.sp # 0
    /\ InvokedOnce(user_exception_handler)
    /\ SystemExceptionHandlers[0] # user_exception_handler

\* C12: once core_exception_handler has dispatched to the default handler,
\* control never returns to the trapping context: the hart stays inside
\* system_default_exception_handler and core_exception_handler never
\* reaches its return.
C12_default_handler_never_returns ==
    (\E i \in 1 .. Len(invoked) :
         invoked[i].handler = system_default_exception_handler)
    => trap_pc \in {"DH_debug", "DH_simulation_exit", "DH_while", "DH_wfi"}

\* The default handler waiting for an interrupt, dispatched for a valid code
\* that was never registered after Exception_Init.
C12_witness_unregistered_code_in_wfi ==
    /\ trap_pc = "DH_wfi"
    /\ trap.EXCn < MAX_SYSTEM_EXCEPTION_NUM
    /\ LastInit(exc_log) > 0
    /\ \A i \in (LastInit(exc_log) + 1) .. Len(exc_log) :
           exc_log[i].EXCn # trap.EXCn
    /\ Len(exc_log) > LastInit(exc_log)
    /\ Len(invoked) = 1

\* Hart h has returned from function fn.
Done(h, fn) == op[h] = fn /\ pc[h] = "done"

\* The bits of a control register value above the defined mask.
Undefined(ctl) == ctl \div (SysTimer_MTIMECTL_Msk + 1)

\* C13: SysTimer_SetControlValue(v) followed by SysTimer_GetControlValue()
\* returns exactly v & SysTimer_MTIMECTL_Msk, so the bits outside the mask
\* read back as 0 whatever v is.
C13_control_round_trip ==
    \A h \in Harts :
        (Done(h, "SysTimer_GetControlValue")
         /\ prev.fn = "SysTimer_SetControlValue")
        => /\ loc[h].ret = prev.value % (SysTimer_MTIMECTL_Msk + 1)
           /\ Undefined(loc[h].ret) = 0

\* A round trip of a value with a bit outside the mask, through a register
\* that held something else before.
C13_witness_undefined_bit_dropped ==
    \E h \in Harts :
        /\ Done(h, "SysTimer_GetControlValue")
        /\ prev.fn = "SysTimer_SetControlValue"
        /\ Undefined(prev.value) # 0
        /\ loc[h].ret = SysTimer_MTIMECTL_Msk
        /\ pre.MTIMECTL = loc[h].ret

\* The single bits of MTIMECTL other than TIMESTOP.
OtherCtlBits ==
    {SysTimer_MTIMECTL_CMPCLREN_Msk, SysTimer_MTIMECTL_CLKSRC_Msk,
     SysTimer_MTIMECTL_Msk + 1}

\* C14: from any prior control register value SysTimer_Start leaves TIMESTOP
\* clear and SysTimer_Stop leaves it set, both leave every other bit of
\* MTIMECTL unchanged, and a Start when started or a Stop when stopped
\* changes nothing.
C14_Start_Stop_only_TIMESTOP ==
    \A h \in Harts :
        (Done(h, "SysTimer_Start") \/ Done(h, "SysTimer_Stop"))
        => /\ BitSet(MTIMECTL, SysTimer_MTIMECTL_TIMESTOP_Msk)
                  <=> (op[h] = "SysTimer_Stop")
           /\ \A b \in OtherCtlBits :
                  BitSet(MTIMECTL, b) <=> BitSet(pre.MTIMECTL, b)
           /\ (BitSet(pre.MTIMECTL, SysTimer_MTIMECTL_TIMESTOP_Msk)
                   <=> (op[h] = "SysTimer_Stop"))
              => MTIMECTL = pre.MTIMECTL

\* A Start of a stopped timer whose CMPCLREN and CLKSRC bits were set.
C14_witness_Start_keeps_other_bits ==
    \E h \in Harts :
        /\ Done(h, "SysTimer_Start")
        /\ pre.MTIMECTL = SysTimer_MTIMECTL_Msk
        /\ MTIMECTL = SysTimer_MTIMECTL_CMPCLREN_Msk + SysTimer_MTIMECTL_CLKSRC_Msk

\* The stores to MTIMECTL of the call of hart h.
CtlStores(h) ==
    {i \in 1 .. Len(stores[h]) : stores[h][i].reg = "MTIMECTL"}

CtlWriters == {"SysTimer_SetControlValue", "SysTimer_Start", "SysTimer_Stop"}

\* C15 as claimed: every store to MTIMECTL by SysTimer_SetControlValue,
\* SysTimer_Start or SysTimer_Stop has all bits outside the defined mask
\* equal to zero, whatever the argument and whatever the register held.
C15_claimed_stores_always_masked ==
    \A h \in Harts :
        op[h] \in CtlWriters
        => \A i \in CtlStores(h) : Undefined(stores[h][i].val) = 0

\* C15 as amended: every store to MTIMECTL by SysTimer_SetControlValue has
\* all bits outside the defined mask equal to zero, whatever the argument
\* and the register; every store by SysTimer_Start or SysTimer_Stop has
\* those bits as the register held them before.
C15_stores_masked_or_preserved ==
    \A h \in Harts :
        op[h] \in CtlWriters
        => \A i \in CtlStores(h) :
               Undefined(stores[h][i].val) =
                   IF op[h] = "SysTimer_SetControlValue"
                   THEN 0
                   ELSE Undefined(pre.MTIMECTL)

\* A SysTimer_SetControlValue whose argument and whose register both had a
\* bit outside the mask set.
C15_witness_Set_drops_undefined_bit ==
    \E h \in Harts :
        /\ Done(h, "SysTimer_SetControlValue")
        /\ Undefined(loc[h].value) # 0
        /\ Undefined(pre.MTIMECTL) # 0
        /\ CtlStores(h) = {1}
        /\ stores[h][1].val = loc[h].value % (SysTimer_MTIMECTL_Msk + 1)

\* C20: SysTimer_SoftwareReset stores SysTimer_MSFRST_KEY to MSFTRST exactly
\* once and then never returns: after the store the calling hart issues no
\* further store and never reaches the end of the function.
C20_SoftwareReset_stores_key_and_spins ==
    \A h \in Harts :
        (op[h] = "SysTimer_SoftwareReset" /\ pc[h] # "SR_store")
        => /\ pc[h] = "SR_while"
           /\ stores[h] = <<St("MSFTRST", 0, 0, 4, SysTimer_MSFRST_KEY)>>
           /\ MSFTRST = SysTimer_MSFRST_KEY

\* A hart spinning in SysTimer_SoftwareReset, called after SysTimer_Stop.
C20_witness_spinning_after_store ==
    \E h \in Harts :
        /\ op[h] = "SysTimer_SoftwareReset"
        /\ pc[h] = "SR_while"
        /\ Len(stores[h]) = 1
        /\ prev.fn = "SysTimer_Stop"

CompareAccessors ==
    {"SysTimer_SetHartCompareValue", "SysTimer_GetHartCompareValue"}
MsipAccessors ==
    {"SysTimer_SetHartSWIRQ", "SysTimer_ClearHartSWIRQ",
     "SysTimer_GetHartMsipValue", "SysTimer_SetHartMsipValue"}

\* The registers the call of hart h has loaded from or stored to.
Accesses(h) ==
    {[reg |-> stores[h][i].reg, idx |-> stores[h][i].idx] :
         i \in 1 .. Len(stores[h])}
    \cup {[reg |-> loads[h][i].reg, idx |-> loads[h][i].idx] :
              i \in 1 .. Len(loads[h])}

\* The one register a hart-qualified accessor is documented to use: the
\* fixed primary register for hart 0, slot hartid of the indexed region
\* (base + hartid * stride) for any other hart.
Documented(fn, hartid) ==
    IF hartid = 0
    THEN [reg |-> IF fn \in CompareAccessors THEN "MTIMERCMP" ELSE "MSIP",
          idx |-> 0]
    ELSE [reg |-> IF fn \in CompareAccessors THEN "CLINT_MTIMECMP"
                  ELSE "CLINT_MSIP",
          idx |-> hartid]

\* C16: the hart-qualified compare and MSIP accessors called with hartid 0
\* access only the fixed primary register and never the per-hart indexed
\* region; called with a hartid >= 1 they access exactly base + hartid *
\* stride of the indexed region and never the fixed primary register.
C16_hart0_fixed_others_indexed ==
    \A h \in Harts :
        op[h] \in (CompareAccessors \cup MsipAccessors)
        => /\ Accesses(h) \subseteq {Documented(op[h], loc[h].hartid)}
           /\ pc[h] = "done" => Accesses(h) # {}

\* SysTimer_SetHartSWIRQ(0) called on another hart: one load and one store,
\* both of the fixed MSIP register.
C16_witness_hart0_from_other_hart ==
    \E h \in Harts :
        /\ h # 0
        /\ Done(h, "SysTimer_SetHartSWIRQ")
        /\ loc[h].hartid = 0
        /\ Len(loads[h]) = 1
        /\ Len(stores[h]) = 1
        /\ CLINT_MSIP = pre.CLINT_MSIP

\* C17: for every hart t >= 1, SysTimer_SendIPI(t) and SysTimer_ClearIPI(t)
\* address the register SysTimer_GetHartMsipValue(t) reads: after SendIPI(t)
\* it returns a value with bit 0 set, after ClearIPI(t) it returns 0.
C17_IPI_matches_MSIP_accessors ==
    \A h \in Harts :
        (/\ Done(h, "SysTimer_GetHartMsipValue")
         /\ loc[h].hartid >= 1
         /\ prev.fn \in IpiOps
         /\ prev.hartid = loc[h].hartid)
        => IF prev.fn = "SysTimer_SendIPI"
           THEN loc[h].ret % 2 = 1
           ELSE loc[h].ret = 0

\* SysTimer_GetHartMsipValue(t) right after SysTimer_SendIPI(t), t >= 1,
\* with no other software interrupt register set.
C17_witness_Get_after_SendIPI ==
    \E h \in Harts :
        /\ Done(h, "SysTimer_GetHartMsipValue")
        /\ loc[h].hartid >= 1
        /\ prev.fn = "SysTimer_SendIPI"
        /\ prev.hartid = loc[h].hartid
        /\ MSIP = 0
        /\ \A t \in Harts : t # loc[h].hartid => CLINT_MSIP[t] = 0

\* C18: SysTimer_SendIPI(0) and SysTimer_ClearIPI(0) write 1 / 0 to the
\* indexed address base + 0 * stride and leave the fixed hart-0 MSIP
\* register unchanged.
C18_IPI_hart0_uses_indexed_slot ==
    \A h \in Harts :
        (op[h] \in IpiOps /\ pc[h] = "done" /\ loc[h].hartid = 0)
        => /\ stores[h] =
                  <<St("CLINT_MSIP", 0, 0, 4,
                       IF op[h] = "SysTimer_SendIPI" THEN 1 ELSE 0)>>
           /\ loads[h] = <<>>
           /\ MSIP = pre.MSIP
           /\ CLINT_MSIP[0] = stores[h][1].val

\* SysTimer_SendIPI(0) done while the fixed MSIP register still reads clear.
C18_witness_SendIPI_hart0 ==
    \E h \in Harts :
        /\ Done(h, "SysTimer_SendIPI")
        /\ loc[h].hartid = 0
        /\ MSIP % 2 = 0
        /\ pre.CLINT_MSIP[0] % 2 = 0
        /\ CLINT_MSIP[0] = 1

\* C19: after any sequence of SysTimer_SetHartSWIRQ / SysTimer_ClearHartSWIRQ
\* calls on arbitrary harts, bit 0 of SysTimer_GetHartMsipValue(t) is 1
\* exactly when the most recent of those calls targeting t was a Set, for
\* every hart t, hart 0 included.
C19_flag_follows_last_call ==
    \A h \in Harts :
        (/\ Done(h, "SysTimer_GetHartMsipValue")
         /\ last_swirq[loc[h].hartid] # "none")
        => (loc[h].ret % 2 = 1 <=> last_swirq[loc[h].hartid] = "Set")

\* Hart 0's flag read as clear after a Clear, with another hart's flag set
\* by a later or earlier Set.
C19_witness_hart0_clear_other_set ==
    \E h \in Harts, t \in Harts :
        /\ Done(h, "SysTimer_GetHartMsipValue")
        /\ loc[h].hartid = 0
        /\ last_swirq[0] = "Clear"
        /\ t # 0
        /\ last_swirq[t] = "Set"
        /\ loc[h].ret = 0
        /\ MSIP # 0

\* C21 as claimed: IRQC_Register_IRQ(IRQn, handler) returns -1 and installs
\* nothing when IRQn >= SOC_INT_MAX, and returns 0 only on success.
C21_claimed_invalid_input_rejected ==
    [][(irq_call'.fn = "IRQC_Register_IRQ" /\ irq_call'.IRQn >= SOC_INT_MAX)
       => /\ irq_call'.ret = 0 - 1
          /\ UNCHANGED <<irq_vector, irq_enabled>>]_<<irq_vector, irq_enabled,
                                                      irq_call>>

\* The values a torn read of a compare register being changed from old to
\* new can return besides old and new: a value with the all-ones low half of
\* the first store, or the high half of one with the low half of the other.
Transient(old, new) ==
    {Join64(hi, AllOnes32) : hi \in {High32(old), High32(new)}}
    \cup {Join64(High32(old), Low32(new)), Join64(High32(new), Low32(old))}

\* C22: on the 32-bit path nothing keeps SysTimer_GetHartCompareValue(t) on
\* one hart from running between the three stores of
\* SysTimer_SetHartCompareValue(new, t) on another, and what it returns is
\* then the old value, the new value, or a transient that is neither: one
\* with the all-ones low half, or a mix of old and new halves.
C22_concurrent_Get_old_new_or_transient ==
    \A r \in Harts, w \in Harts :
        (/\ xlen = 32
         /\ Done(r, "SysTimer_GetHartCompareValue")
         /\ op[w] = "SysTimer_SetHartCompareValue"
         /\ loc[w].hartid = loc[r].hartid)
        => loc[r].ret \in {snap[w].cmp, loc[w].value}
                            \cup Transient(snap[w].cmp, loc[w].value)

\* A read that returned the all-ones low half, which neither the old nor the
\* new compare value has, while the writer was between its stores.
C22_witness_sentinel_read ==
    \E r \in Harts, w \in Harts :
        /\ xlen = 32
        /\ Done(r, "SysTimer_GetHartCompareValue")
        /\ op[w] = "SysTimer_SetHartCompareValue"
        /\ pc[w] \in {"SC_high", "SC_low"}
        /\ loc[w].hartid = loc[r].hartid
        /\ loc[r].hartid # 0
        /\ Low32(loc[r].ret) = AllOnes32
        /\ Low32(snap[w].cmp) # AllOnes32
        /\ Low32(loc[w].value) # AllOnes32
        /\ loc[r].ret \notin {snap[w].cmp, loc[w].value}

\* The positions of function f among the calls _premain_init has made.
BootCalls(f) == {i \in 1 .. Len(boot_log) : boot_log[i] = f}

\* C23: _premain_init calls Exception_Init exactly once and before
\* Interrupt_Init and Trap_Init, so every slot of the exception handler table
\* holds the default handler before interrupt and trap initialization run.
C23_Exception_Init_once_and_first ==
    /\ Cardinality(BootCalls("Exception_Init")) <= 1
    /\ \A i \in BootCalls("Interrupt_Init") \cup BootCalls("Trap_Init") :
           \E j \in BootCalls("Exception_Init") : j < i
    /\ (boot_pc = "_premain_init" /\ BootCalls("Exception_Init") # {})
       => \A n \in DOMAIN SystemExceptionHandlers :
              SystemExceptionHandlers[n] = system_default_exception_handler
    /\ boot_pc = "main" => Cardinality(BootCalls("Exception_Init")) = 1

\* Interrupt_Init about to run on a filled table, after a trap taken earlier
\* in the boot found an empty slot and returned.
C23_witness_table_filled_before_Interrupt_Init ==
    /\ boot_pc = "_premain_init"
    /\ Len(boot_log) < Len(premain_init_calls)
    /\ premain_init_calls[Len(boot_log) + 1] = "Interrupt_Init"
    /\ boot_log[Len(boot_log)] = "Exception_Init"
    /\ \A n \in DOMAIN SystemExceptionHandlers :
           SystemExceptionHandlers[n] = system_default_exception_handler
    /\ trap_pc = "returned"

\* C24 as claimed: for every hart, hart 0 and harts >= 1 alike,
\* SysTimer_SetHartMsipValue(msip, t) stores only msip & SysTimer_MSIP_Msk and
\* a SysTimer_GetHartMsipValue(t) that follows returns msip & SysTimer_MSIP_Msk.
C24_claimed_masked_for_every_hart ==
    \A h \in Harts :
        /\ op[h] = "SysTimer_SetHartMsipValue"
           => \A i \in 1 .. Len(stores[h]) :
                  stores[h][i].val = BitAnd(loc[h].value, SysTimer_MSIP_Msk)
        /\ (/\ Done(h, "SysTimer_GetHartMsipValue")
            /\ prev.fn = "SysTimer_SetHartMsipValue"
            /\ prev.hartid = loc[h].hartid)
           => loc[h].ret = BitAnd(prev.value, SysTimer_MSIP_Msk)

\* C25: with the counter halted and no other hart writing, the split 32-bit
\* paths and the single-access 64-bit paths agree: on either build the
\* register holds exactly v after SysTimer_SetLoadValue(v) or
\* SysTimer_SetHartCompareValue(v, t), and SysTimer_GetLoadValue and
\* SysTimer_GetHartCompareValue(t) return exactly the register's value.
C25_split_and_single_access_agree ==
    \A h \in Harts :
        /\ Done(h, "SysTimer_SetLoadValue") => MTIMER = loc[h].value
        /\ Done(h, "SysTimer_SetHartCompareValue")
           => LoadCmp(loc[h].hartid) = loc[h].value
        /\ Done(h, "SysTimer_GetLoadValue")
           => loc[h].ret = MTIMER /\ MTIMER = snap[h].MTIMER
        /\ Done(h, "SysTimer_GetHartCompareValue")
           => loc[h].ret = LoadCmp(loc[h].hartid)

\* A 32-bit SysTimer_SetLoadValue done, of a value that differs from the old
\* counter in both halves and whose low half is not the zero written first.
C25_witness_split_store_of_both_halves ==
    \E h \in Harts :
        /\ xlen = 32
        /\ Done(h, "SysTimer_SetLoadValue")
        /\ Len(stores[h]) = 3
        /\ High32(loc[h].value) # High32(snap[h].MTIMER)
        /\ Low32(loc[h].value) # Low32(snap[h].MTIMER)
        /\ Low32(loc[h].value) # 0

Wrappers ==
    {"SysTimer_SetCompareValue", "SysTimer_GetCompareValue", "SysTimer_SetSWIRQ",
     "SysTimer_ClearSWIRQ", "SysTimer_GetMsipValue", "SysTimer_SetMsipValue",
     "SysTick_Reload"}
HartQualified == {HartVariant(fn) : fn \in Wrappers}

\* The stores of hart-qualified function fn called with target hart t, and
\* the value it returns, from the registers as the call of hart h began and
\* the arguments and counter reading of that call.
HartQualifiedStores(fn, t, h) ==
    LET v == loc[h].value
        old == IF t = 0 THEN pre.MSIP ELSE pre.CLINT_MSIP[t]
        reg == Documented(fn, t)
        Msip(val) == <<St(reg.reg, reg.idx, 0, 4, val)>>
    IN  CASE fn = "SysTimer_SetHartCompareValue" -> SetCompareStores(v, t)
          [] fn = "SysTimer_SetHartSWIRQ" ->
               Msip(IF t = 0 THEN BitOr(old, SysTimer_MSIP_MSIP_Msk)
                    ELSE SysTimer_MSIP_MSIP_Msk)
          [] fn = "SysTimer_ClearHartSWIRQ" ->
               Msip(IF t = 0 THEN BitClear(old, SysTimer_MSIP_MSIP_Msk) ELSE 0)
          [] fn = "SysTimer_SetHartMsipValue" ->
               Msip(IF t = 0 THEN BitAnd(v, SysTimer_MSIP_Msk) ELSE v)
          [] fn = "SysTick_HartReload" ->
               IF Add64(loc[h].ticks, loc[h].cur_ticks) > loc[h].cur_ticks
               THEN SetCompareStores(Add64(loc[h].ticks, loc[h].cur_ticks), t)
               ELSE SetLoadValueStores(0) \o SetCompareStores(loc[h].ticks, t)
          [] OTHER -> <<>>

HartQualifiedResult(fn, t) ==
    CASE fn = "SysTimer_GetHartCompareValue" -> LoadCmp(t)
      [] fn = "SysTimer_GetHartMsipValue" ->
           IF t = 0 THEN BitAnd(MSIP, SysTimer_MSIP_Msk) ELSE CLINT_MSIP[t]
      [] OTHER -> 0

\* C26: a self-targeting wrapper executed on hart h issues the stores and
\* returns the result of its hart-qualified variant called with h, the
\* hart-qualified variant itself being held to the same stores and result:
\* SetCompareValue / SetHartCompareValue, GetCompareValue /
\* GetHartCompareValue, SetSWIRQ, ClearSWIRQ, GetMsipValue, SetMsipValue and
\* their Hart variants, SysTick_Reload / SysTick_HartReload.
C26_wrapper_equals_hart_variant ==
    \A h \in Harts :
        (pc[h] = "done" /\ op[h] \in Wrappers \cup HartQualified)
        => LET t == IF op[h] \in Wrappers THEN h ELSE loc[h].hartid
               fn == HartVariant(op[h])
           IN  /\ stores[h] = HartQualifiedStores(fn, t, h)
               /\ loc[h].ret = HartQualifiedResult(fn, t)

\* SysTimer_SetCompareValue done on a hart other than hart 0, with the
\* three stores SysTimer_SetHartCompareValue issues to that hart's register.
C26_witness_wrapper_on_indexed_hart ==
    \E h \in Harts :
        /\ h # 0
        /\ Done(h, "SysTimer_SetCompareValue")
        /\ Len(stores[h]) = 3
        /\ CLINT_MTIMECMP[h] = loc[h].value
        /\ loc[h].value # ResetCmp
        /\ MTIMERCMP = ResetCmp

\* C27: harts concurrently executing SysTimer_SetCompareValue, their stores
\* interleaved in every way: each hart's own compare register ends equal to
\* its own argument, a compare register changes only in a step of its own
\* hart, every store is addressed to the caller's compare register, and the
\* counter, the control register and the MSIP registers never change.
C27_concurrent_SetCompareValue_own_register ==
    /\ [](\A h \in Harts :
             /\ Done(h, "SysTimer_SetCompareValue") => LoadCmp(h) = loc[h].value
             /\ \A i \in 1 .. Len(stores[h]) :
                    /\ stores[h][i].reg = CmpName(h)
                    /\ stores[h][i].idx = CmpIndex(h))
    /\ [][/\ \A g \in Harts : LoadCmp(g)' # LoadCmp(g) => pc'[g] # pc[g]
          /\ UNCHANGED <<MTIMER, MTIMECTL, MSIP, CLINT_MSIP, MSFTRST>>]_vars

\* One hart has finished its call while another is between its second and
\* third store, and both are holding different arguments.
C27_witness_done_while_other_mid_call ==
    \E h \in Harts, g \in Harts :
        /\ h # g
        /\ Done(h, "SysTimer_SetCompareValue")
        /\ op[g] = "SysTimer_SetCompareValue"
        /\ pc[g] = "SC_low"
        /\ loc[h].value # loc[g].value
        /\ LoadCmp(h) = loc[h].value
        /\ LoadCmp(g) # loc[g].value
        /\ Len(stores[h]) = 3
        /\ Len(stores[g]) = 2

\* C29: on the 32-bit path, with the counter running and fewer than 2^32
\* ticks during SysTimer_SetLoadValue(v), the low half counts up from 0
\* without carrying once the first store is done, the high half is v>>32
\* from the second store on, and the counter equals v when the call is done.
C29_no_carry_between_stores ==
    \A h \in Harts :
        (/\ xlen = 32
         /\ op[h] = "SysTimer_SetLoadValue"
         /\ nticks < HalfMod)
        => /\ pc[h] = "SL_high" => Low32(MTIMER) <= nticks
           /\ pc[h] = "SL_low" => /\ High32(MTIMER) = High32(loc[h].value)
                                  /\ Low32(MTIMER) <= nticks
           /\ pc[h] = "done" => MTIMER = loc[h].value

\* The call is done on a running counter that ticked as often as the bound
\* allows during it, and whose old low half was about to carry.
C29_witness_ticks_during_call ==
    \E h \in Harts :
        /\ xlen = 32
        /\ Done(h, "SysTimer_SetLoadValue")
        /\ ~BitSet(MTIMECTL, SysTimer_MTIMECTL_TIMESTOP_Msk)
        /\ nticks = MaxTicks
        /\ Low32(snap[h].MTIMER) = AllOnes32
        /\ High32(loc[h].value) # High32(snap[h].MTIMER)
        /\ Len(stores[h]) = 3

\* C30: when the slot core_exception_handler selects holds 0, no handler is
\* invoked, the default handler included, and the call goes straight to its
\* return; whenever the call has returned, after a skipped call or after the
\* invoked handler returned, its result is 0.
C30_null_slot_invokes_nothing_returns_0 ==
    /\ (/\ trap_pc \notin {"none", "CEH_select", "returned"}
        /\ trap.EXCn < MAX_SYSTEM_EXCEPTION_NUM
        /\ SystemExceptionHandlers[trap.EXCn] = 0)
       => /\ invoked = <<>>
          /\ trap_pc = "CEH_return"
    /\ (trap_pc \in {"CEH_return", "returned"} /\ trap.exc_handler = 0)
       => invoked = <<>>
    /\ trap_pc = "returned" => trap.ret = 0

\* Exception_Init, then Exception_Register_EXC(code, 0), then a trap with
\* that code and bits above the low 12 set: the call has returned without a
\* handler having run.
C30_witness_returned_after_registering_0 ==
    /\ trap_pc = "returned"
    /\ Len(exc_log) = 2
    /\ exc_log[1].fn = "Exception_Init"
    /\ exc_log[2].fn = "Exception_Register_EXC"
    /\ exc_log[2].EXCn = trap.EXCn
    /\ exc_log[2].handler = 0
    /\ trap.mcause > 4095
    /\ trap.EXCn = MAX_SYSTEM_EXCEPTION_NUM - 1
    /\ trap.exc_handler = 0
    /\ SystemExceptionHandlers[0] = system_default_exception_handler
    /\ invoked = <<>>
    /\ trap.ret = 0

\* The hart whose timer interrupt handler is installed.
IsrHart == CHOOSE h \in Harts : isr_ticks[h] > 0

\* C28: with the counter running, CMPCLREN clear and fewer than ticks
\* counter ticks during each SysTick_Reload(ticks) of the handler (ticks > 0),
\* the interrupt is not pending when SysTick_Reload has returned, and with
\* the counter counting on it is pending again infinitely often, the wrap
\* of the counter range included.
C28_periodic_reload ==
    /\ [](\A h \in Harts : Done(h, "SysTick_Reload") => ~TimerPending(h))
    /\ []<>TimerPending(IsrHart)
    /\ []<>(~TimerPending(IsrHart))

\* SysTick_Reload has returned from its overflow branch on a hart other than
\* hart 0, the counter having ticked during the call: the counter restarted
\* from 0 and the compare register holds ticks.
C28_witness_reloaded_across_wrap ==
    \E h \in Harts :
        /\ h # 0
        /\ Done(h, "SysTick_Reload")
        /\ loc[h].ticks = isr_ticks[h]
        /\ loc[h].ticks + loc[h].cur_ticks >= FullMod
        /\ nticks > 0
        /\ MTIMER < loc[h].ticks
        /\ LoadCmp(h) = loc[h].ticks
        /\ ~TimerPending(h)

====
